---- MODULE Spec2Model ----
(***************************************************************************)
(* A model of the game engine of gorilskij/tetris (src/src/game/mod.rs):   *)
(* the collision oracle, the 7-bag piece queue, board compaction and the   *)
(* Game state machine with its control operations.                         *)
(***************************************************************************)
EXTENDS Integers, Sequences, FiniteSets, TLC

VARIABLES
    board,        \* Game.board : [0..19 -> [0..9 -> Pixel]], board[y][x]
    piece_queue,  \* Game.piece_queue : [bag : Seq(PieceId), queue : Seq(PieceId)]
    falling,      \* Game.falling : NoPiece or a FallingPiece record
    hold,         \* Game.hold : NoHold or a PieceId
    can_switch,   \* Game.can_switch
    tick,         \* Game.tick
    points,       \* Game.points
    level,        \* Game.level
    cleared,      \* Game.cleared
    outcome,      \* how the last call ended: Running or the panic that unwound it
    locks,        \* history: number of pieces stamped onto the board so far
    call,         \* history: the last call made, its arguments and what it returned
    driver        \* the caller: how many calls of each sort it still makes

vars == <<board, piece_queue, falling, hold, can_switch, tick, points, level,
          cleared, outcome, locks, call, driver>>

----------------------------------------------------------------------------
(* Constants of the program *)

GAME_WIDTH == 10
GAME_HEIGHT == 20
LOCK_DELAY == 5
LOCK_DELAY_RESETS == 10
QUEUE_LEN == 3

\* PieceId::ALL, in declaration order
ALL == <<"IBlock", "JBlock", "LBlock", "OBlock", "SBlock", "TBlock", "ZBlock">>
PieceId == {ALL[i] : i \in 1..Len(ALL)}

\* a pixel that keeps no kind: every full cell is written as the first kind
FullOfFirstKind(id) == "IBlock"

\* enum Pixel { Empty, Full(PieceId) }: Full(id) is written id
Empty == "Empty"
Full(id) == id
is_empty(px) == px = Empty
Pixel == {Empty} \cup PieceId

Max(a, b) == IF a >= b THEN a ELSE b
Min(a, b) == IF a <= b THEN a ELSE b

----------------------------------------------------------------------------
(* Masks.  type Mask = [[bool; 4]; 4], indexed mask[rel_y][rel_x]. *)

MaskOf(cells) == [ry \in 0..3 |-> [rx \in 0..3 |-> <<rx, ry>> \in cells]]

\* The set cells (rel_x, rel_y) of a mask
MaskCells(mask) == {c \in (0..3) \X (0..3) : mask[c[2]][c[1]]}

\* masks.txt is not among the sources; the table is the standard one, each
\* kind with its 4 clockwise rotations, the O piece on cells (1,1)-(2,2).
MaskCellTable ==
    [IBlock |-> << {<<0,1>>, <<1,1>>, <<2,1>>, <<3,1>>},
                   {<<2,0>>, <<2,1>>, <<2,2>>, <<2,3>>},
                   {<<0,2>>, <<1,2>>, <<2,2>>, <<3,2>>},
                   {<<1,0>>, <<1,1>>, <<1,2>>, <<1,3>>} >>,
     JBlock |-> << {<<0,0>>, <<0,1>>, <<1,1>>, <<2,1>>},
                   {<<1,0>>, <<2,0>>, <<1,1>>, <<1,2>>},
                   {<<0,1>>, <<1,1>>, <<2,1>>, <<2,2>>},
                   {<<1,0>>, <<1,1>>, <<0,2>>, <<1,2>>} >>,
     LBlock |-> << {<<2,0>>, <<0,1>>, <<1,1>>, <<2,1>>},
                   {<<1,0>>, <<1,1>>, <<1,2>>, <<2,2>>},
                   {<<0,1>>, <<1,1>>, <<2,1>>, <<0,2>>},
                   {<<0,0>>, <<1,0>>, <<1,1>>, <<1,2>>} >>,
     OBlock |-> << {<<1,1>>, <<2,1>>, <<1,2>>, <<2,2>>},
                   {<<1,1>>, <<2,1>>, <<1,2>>, <<2,2>>},
                   {<<1,1>>, <<2,1>>, <<1,2>>, <<2,2>>},
                   {<<1,1>>, <<2,1>>, <<1,2>>, <<2,2>>} >>,
     SBlock |-> << {<<1,0>>, <<2,0>>, <<0,1>>, <<1,1>>},
                   {<<1,0>>, <<1,1>>, <<2,1>>, <<2,2>>},
                   {<<1,1>>, <<2,1>>, <<0,2>>, <<1,2>>},
                   {<<0,0>>, <<0,1>>, <<1,1>>, <<1,2>>} >>,
     TBlock |-> << {<<1,0>>, <<0,1>>, <<1,1>>, <<2,1>>},
                   {<<1,0>>, <<1,1>>, <<2,1>>, <<1,2>>},
                   {<<0,1>>, <<1,1>>, <<2,1>>, <<1,2>>},
                   {<<1,0>>, <<0,1>>, <<1,1>>, <<1,2>>} >>,
     ZBlock |-> << {<<0,0>>, <<1,0>>, <<1,1>>, <<2,1>>},
                   {<<2,0>>, <<1,1>>, <<2,1>>, <<1,2>>},
                   {<<0,1>>, <<1,1>>, <<1,2>>, <<2,2>>},
                   {<<1,0>>, <<0,1>>, <<1,1>>, <<0,2>>} >>]

\* Game.mask_map[&id][idx], idx in 0..3
mask_map(id, idx) == MaskOf(MaskCellTable[id][idx + 1])

----------------------------------------------------------------------------
(* The board *)

EmptyRow == [x \in 0..(GAME_WIDTH - 1) |-> Empty]
EmptyBoard == [y \in 0..(GAME_HEIGHT - 1) |-> EmptyRow]

InBounds(x, y) == x >= 0 /\ x < GAME_WIDTH /\ y >= 0 /\ y < GAME_HEIGHT

\* board[abs_y as usize][abs_x as usize]: an index outside the arrays panics
\* (a negative isize cast to usize is a huge index)
IndexPanic == "index out of bounds"
PixelAt(b, x, y) == IF InBounds(x, y) THEN b[y][x] ELSE IndexPanic

----------------------------------------------------------------------------
(* fn intersects_with(mask, (x, y), board) -> bool                          *)
(* The scan visits the 16 mask cells row by row and returns at the first    *)
(* hit; i numbers the cells, rel_y = i \div 4, rel_x = i % 4.  The result   *)
(* is [ret |-> the bool returned, panicked |-> an index panic unwound it].  *)

Returned(b) == [ret |-> b, panicked |-> FALSE]
Panicked == [ret |-> FALSE, panicked |-> TRUE]

\* the bounds check with abs_x > GAME_WIDTH for abs_x >= GAME_WIDTH
OutsideBadWidth(abs_x, abs_y) ==
    abs_x < 0 \/ abs_x > GAME_WIDTH \/ abs_y < 0 \/ abs_y >= GAME_HEIGHT

Outside(abs_x, abs_y) ==
    abs_x < 0 \/ abs_x >= GAME_WIDTH \/ abs_y < 0 \/ abs_y >= GAME_HEIGHT

RECURSIVE intersects_scan(_, _, _, _)
intersects_scan(mask, pos, b, i) ==
    IF i = 16 THEN Returned(FALSE)
    ELSE LET rel_y == i \div 4
             rel_x == i % 4
             abs_x == rel_x + pos[1]
             abs_y == rel_y + pos[2]
         IN  IF mask[rel_y][rel_x]
             THEN IF Outside(abs_x, abs_y) THEN Returned(TRUE)
                  ELSE LET px == PixelAt(b, abs_x, abs_y)
                       IN  IF px = IndexPanic THEN Panicked
                           ELSE IF ~is_empty(px) THEN Returned(TRUE)
                           ELSE intersects_scan(mask, pos, b, i + 1)
             ELSE intersects_scan(mask, pos, b, i + 1)

intersects_with_call(mask, pos, b) == intersects_scan(mask, pos, b, 0)

intersects_with(mask, pos, b) == intersects_with_call(mask, pos, b).ret

----------------------------------------------------------------------------
(* PieceQueue: the bag and the lookahead buffer.  The ThreadRng is the     *)
(* caller of these operators: idx is what rng.gen_range(0, bag.len())      *)
(* returned.                                                               *)

SeqOf(seq) == {seq[i] : i \in 1..Len(seq)}

\* Vec::remove(idx), idx counted from 0
RemoveAt(seq, idx) == SubSeq(seq, 1, idx) \o SubSeq(seq, idx + 2, Len(seq))

\* the refill made while one kind is still in the bag
RefillEarly(bag) == IF Len(bag) <= 1 THEN ALL ELSE bag

\* if bag.is_empty() { bag.extend_from_slice(PieceId::ALL) }
Refill(bag) == IF Len(bag) = 0 THEN ALL ELSE bag

\* the length gen_range is given: the bag's after the refill
DrawLen(bag) == Len(Refill(bag))

\* a draw that leaves the kind it drew in the bag
pop_from_bag_kept(bag, idx) ==
    LET full == Refill(bag)
    IN  [id |-> full[idx + 1], bag |-> full]

\* PieceQueue::pop_from_bag: [id |-> the kind drawn, bag |-> the bag left]
pop_from_bag(bag, idx) ==
    LET full == Refill(bag)
    IN  [id |-> full[idx + 1], bag |-> RemoveAt(full, idx)]

\* PieceQueue::new with the three indices drawn
PieceQueue_new(i1, i2, i3) ==
    LET d1 == pop_from_bag(<<>>, i1)
        d2 == pop_from_bag(d1.bag, i2)
        d3 == pop_from_bag(d2.bag, i3)
    IN  [bag |-> d3.bag, queue |-> <<d1.id, d2.id, d3.id>>]

\* pop() without the pop_front
PopKeepFront(queue, id) == Append(queue, id)

\* the buffer after pop(): the front removed, the draw pushed at the back
PopPush(queue, id) == Append(Tail(queue), id)

\* PieceQueue::pop: [out |-> the kind returned, pq |-> the queue afterwards]
PieceQueue_pop(pq, idx) ==
    LET d == pop_from_bag(pq.bag, idx)
    IN  [out |-> Head(pq.queue),
         pq  |-> [bag |-> d.bag, queue |-> PopPush(pq.queue, d.id)]]

----------------------------------------------------------------------------
(* Game::compact_board *)

\* the row test without the negation of is_empty
RowFullNegated(row) == \A x \in 0..(GAME_WIDTH - 1) : is_empty(row[x])

\* self.board[y].iter().all(|px| !px.is_empty())
RowFull(row) == \A x \in 0..(GAME_WIDTH - 1) : ~is_empty(row[x])

\* the rows of board b that are full
FullRows(b) == {y \in 0..(GAME_HEIGHT - 1) : RowFull(b[y])}

\* for y in (0..GAME_HEIGHT).rev(): [board, shift_up] after rows y..0
RECURSIVE compact_loop(_, _, _)
compact_loop(b, y, shift_up) ==
    IF y < 0 THEN [board |-> b, shift_up |-> shift_up]
    ELSE IF RowFull(b[y]) THEN compact_loop(b, y - 1, shift_up + 1)
    ELSE IF shift_up > 0
         THEN compact_loop([b EXCEPT ![y + shift_up] = b[y], ![y] = EmptyRow],
                           y - 1, shift_up)
         ELSE compact_loop(b, y - 1, shift_up)

\* the match with the arms of 2 and 3 rows swapped
AwardSwapped(n) ==
    CASE n = 0 -> 0 [] n = 1 -> 40 [] n = 2 -> 300 [] n = 3 -> 100 [] OTHER -> 1200

\* the match with its awards taken off instead of added
AwardTaken(n) ==
    CASE n = 0 -> 0 [] n = 1 -> 0 - 40 [] n = 2 -> 0 - 100 [] n = 3 -> 0 - 300
      [] OTHER -> 0 - 1200

\* the match on shift_up; more than 4 has no arm but the panic
Award(n) ==
    CASE n = 0 -> 0 [] n = 1 -> 40 [] n = 2 -> 100 [] n = 3 -> 300 [] OTHER -> 1200

\* the level without the + 1
LevelOfZeroBased(c) == c \div 10

\* self.level = (self.cleared / 10) + 1
LevelOf(c) == (c \div 10) + 1

\* How a call ends: it returns, or a panic!() unwinds it.  The outcome keeps
\* the way it reached the caller (via), the panic's message (kind) and the
\* numbers the message carries.
Returns == "return"
Unwinds == "panic!"
Running == [kind |-> "Running", via |-> Returns, points |-> 0, level |-> 0, cleared |-> 0]
PanicOf(msg) == [kind |-> msg, via |-> Unwinds, points |-> 0, level |-> 0, cleared |-> 0]
PanicLines == "unexpected lines cleared"
PanicPrint == "intersected with board while printing onto it"
PanicNoFalling == "no falling piece"
LostKind == "Lost"

\* a compact_board that computes the award before it recomputes the level
compact_board_award_first(b, pts, clr) ==
    LET r   == compact_loop(b, GAME_HEIGHT - 1, 0)
        c2  == clr + r.shift_up
    IN  [board    |-> r.board,
         shift_up |-> r.shift_up,
         cleared  |-> c2,
         level    |-> LevelOf(c2),
         points   |-> IF r.shift_up > 4 THEN pts
                      ELSE pts + LevelOf(clr) * Award(r.shift_up),
         outcome  |-> IF r.shift_up > 4 THEN PanicOf(PanicLines) ELSE Running]

\* compact_board on (board, points, cleared): the fields afterwards and
\* whether the match panicked (points are then not added).  The result r of
\* the loop is bound as a value, the one element of a set, and so computed
\* once wherever the operator is evaluated, inside ENABLED too
compact_board(b, pts, clr) ==
    CHOOSE after \in
        {LET c2  == clr + r.shift_up
             lv2 == LevelOf(c2)
         IN  [board    |-> r.board,
              shift_up |-> r.shift_up,
              cleared  |-> c2,
              level    |-> lv2,
              points   |-> IF r.shift_up > 4 THEN pts
                           ELSE pts + lv2 * Award(r.shift_up),
              outcome  |-> IF r.shift_up > 4 THEN PanicOf(PanicLines) ELSE Running] :
            r \in {compact_loop(b, GAME_HEIGHT - 1, 0)}} : TRUE

----------------------------------------------------------------------------
(* FallingPiece and Game.  The operators below take and return the Game as *)
(* a record g of its fields; a panic sets g.outcome and every later step   *)
(* of the call is skipped.                                                 *)

NoPiece == [id |-> "None"]
NoHold == "None"

\* FallingPiece::is_touching_ground
is_touching_ground(fp, b) ==
    intersects_with(fp.mask, <<fp.pos[1], fp.pos[2] + 1>>, b)

\* FallingPiece::print_onto: for rel_x in 0..4 { for rel_y in 0..4 { .. } },
\* i numbers the cells, rel_x = i \div 4, rel_y = i % 4.  The cells stamped
\* before a panic stay stamped.
RECURSIVE print_scan(_, _, _)
print_scan(fp, b, i) ==
    IF i = 16 THEN [board |-> b, panic |-> "none"]
    ELSE LET rel_x == i \div 4
             rel_y == i % 4
             abs_x == fp.pos[1] + rel_x
             abs_y == fp.pos[2] + rel_y
         IN  IF fp.mask[rel_y][rel_x]
             THEN LET px == PixelAt(b, abs_x, abs_y)
                  IN  IF px = IndexPanic THEN [board |-> b, panic |-> IndexPanic]
                      ELSE IF is_empty(px)
                      THEN print_scan(fp, [b EXCEPT ![abs_y][abs_x] = Full(fp.id)], i + 1)
                      ELSE [board |-> b, panic |-> PanicPrint]
             ELSE print_scan(fp, b, i + 1)

print_onto(fp, b) == print_scan(fp, b, 0)

\* a reset granted to every piece with budget left, counting down or not
reset_while_budget(fp) ==
    IF fp.lock_delay_resets > 0
    THEN [fp EXCEPT !.lock_delay = LOCK_DELAY,
                    !.lock_delay_resets = fp.lock_delay_resets - 1]
    ELSE fp

\* a reset granted to every piece that is counting down, budget or not
reset_without_budget(fp) ==
    IF fp.lock_delay < LOCK_DELAY
    THEN [fp EXCEPT !.lock_delay = LOCK_DELAY,
                    !.lock_delay_resets = fp.lock_delay_resets - 1]
    ELSE fp

\* a reset that leaves the budget as it was
reset_uncharged(fp) ==
    IF fp.lock_delay < LOCK_DELAY /\ fp.lock_delay_resets > 0
    THEN [fp EXCEPT !.lock_delay = LOCK_DELAY]
    ELSE fp

\* FallingPiece::checked_reset_lock_delay
checked_reset_lock_delay(fp) ==
    IF fp.lock_delay < LOCK_DELAY /\ fp.lock_delay_resets > 0
    THEN [fp EXCEPT !.lock_delay = LOCK_DELAY,
                    !.lock_delay_resets = fp.lock_delay_resets - 1]
    ELSE fp

\* Game::lose: panic!("Lost { points: {}, level: {}, cleared: {} }", ..)
lose(g) ==
    [g EXCEPT !.outcome = [kind |-> LostKind, via |-> Unwinds, points |-> g.points,
                           level |-> g.level, cleared |-> g.cleared]]

\* a spawn position at the left wall
SpawnAtWall == <<0, 0>>

\* let pos = (GAME_WIDTH as isize / 2 - 2, 0)
SpawnPos == <<(GAME_WIDTH \div 2) - 2, 0>>

\* spawn_with_id without its intersection test
SpawnUnchecked(mask, b) == FALSE

\* the test spawn_with_id makes before it creates the piece
SpawnBlocked(mask, b) == intersects_with(mask, SpawnPos, b)

\* Game::spawn_with_id
spawn_with_id(g, id) ==
    LET mask_idx == 0
        mask == mask_map(id, mask_idx)
    IN  IF SpawnBlocked(mask, g.board) THEN lose(g)
        ELSE [g EXCEPT !.falling =
                 [id |-> id, pos |-> SpawnPos, mask_idx |-> mask_idx, mask |-> mask,
                  lock_delay |-> LOCK_DELAY, lock_delay_resets |-> LOCK_DELAY_RESETS]]

\* a spawn that pops the queue and creates no piece
spawn_nothing(g, idx) ==
    [g EXCEPT !.piece_queue = PieceQueue_pop(g.piece_queue, idx).pq]

\* Game::spawn; idx is the index the queue's rng draws
spawn(g, idx) ==
    LET r == PieceQueue_pop(g.piece_queue, idx)
    IN  spawn_with_id([g EXCEPT !.piece_queue = r.pq], r.out)

\* a lock that waits for the lock delay to run out
lock_when_expired(g, idx) ==
    IF g.falling = NoPiece THEN [g EXCEPT !.outcome = PanicOf(PanicNoFalling)]
    ELSE IF g.falling.lock_delay > 0 THEN g
    ELSE LET p == print_onto(g.falling, g.board)
         IN  IF p.panic # "none"
             THEN [g EXCEPT !.board = p.board, !.outcome = PanicOf(p.panic)]
             ELSE spawn([g EXCEPT !.board = p.board, !.falling = NoPiece,
                                  !.can_switch = TRUE, !.locks = g.locks + 1], idx)

\* a lock that clears the rows it completed before it spawns the next piece
lock_then_compact(g, idx) ==
    IF g.falling = NoPiece THEN [g EXCEPT !.outcome = PanicOf(PanicNoFalling)]
    ELSE LET p == print_onto(g.falling, g.board)
             r == compact_board(p.board, g.points, g.cleared)
         IN  IF p.panic # "none"
             THEN [g EXCEPT !.board = p.board, !.outcome = PanicOf(p.panic)]
             ELSE spawn([g EXCEPT !.board = r.board, !.points = r.points,
                                  !.cleared = r.cleared, !.level = r.level,
                                  !.falling = NoPiece, !.can_switch = TRUE,
                                  !.locks = g.locks + 1], idx)

\* Game::destroy_falling_and_respawn
destroy_falling_and_respawn(g, idx) ==
    IF g.falling = NoPiece THEN [g EXCEPT !.outcome = PanicOf(PanicNoFalling)]
    ELSE LET p == print_onto(g.falling, g.board)
         IN  IF p.panic # "none"
             THEN [g EXCEPT !.board = p.board, !.outcome = PanicOf(p.panic)]
             ELSE spawn([g EXCEPT !.board = p.board, !.falling = NoPiece,
                                  !.can_switch = TRUE, !.locks = g.locks + 1], idx)

\* Game::compact_board on the Game
Game_compact_board(g) ==
    CHOOSE after \in
        {[g EXCEPT !.board = r.board, !.cleared = r.cleared, !.level = r.level,
                   !.points = r.points, !.outcome = r.outcome] :
            r \in {compact_board(g.board, g.points, g.cleared)}} : TRUE

\* a table that gives every level the speed of level 1
RowsPerFrameSteady ==
    <<16670, 16670, 16670, 16670, 16670, 16670, 16670, 16670, 16670, 16670,
      16670, 16670, 16670, 16670, 16670>>

\* ROWS_PER_FRAME, in millionths of a row
ROWS_PER_FRAME ==
    <<16670, 21017, 26977, 35256, 46930, 63610, 87900, 123600, 177500, 259800,
      388000, 590000, 920000, 1460000, 2360000>>

\* the interval with the quotient rounded up
frames_per_row_ceil(lv) == Max(1, (1000000 \div ROWS_PER_FRAME[Min(lv, 15)]) + 1)

\* max(1, (1. / rows_per_frame) as usize): the cast truncates
frames_per_row(lv) == Max(1, 1000000 \div ROWS_PER_FRAME[Min(lv, 15)])

\* a gravity step that locks a resting piece as soon as it finds it
gravity_step_no_delay(g, idx) ==
    IF g.falling = NoPiece THEN [g EXCEPT !.outcome = PanicOf(PanicNoFalling)]
    ELSE IF is_touching_ground(g.falling, g.board)
    THEN destroy_falling_and_respawn(g, idx)
    ELSE [g EXCEPT !.falling.pos = <<g.falling.pos[1], g.falling.pos[2] + 1>>]

\* the gravity step of iterate, on a tick divisible by frames_per_row
gravity_step(g, idx) ==
    IF g.falling = NoPiece THEN [g EXCEPT !.outcome = PanicOf(PanicNoFalling)]
    ELSE IF is_touching_ground(g.falling, g.board)
    THEN IF g.falling.lock_delay = 0
         THEN destroy_falling_and_respawn(g, idx)
         ELSE [g EXCEPT !.falling.lock_delay = g.falling.lock_delay - 1]
    ELSE [g EXCEPT !.falling.pos = <<g.falling.pos[1], g.falling.pos[2] + 1>>]

\* Game::iterate
iterate(g, idx) ==
    CHOOSE after \in
        {IF g2.outcome # Running THEN g2 ELSE [g2 EXCEPT !.tick = g2.tick + 1] :
            g2 \in {IF g1.outcome # Running THEN g1
                    ELSE IF g1.tick % frames_per_row(g1.level) = 0
                    THEN gravity_step(g1, idx)
                    ELSE g1 : g1 \in {Game_compact_board(g)}}} : TRUE

\* a move that stamps the piece where it is when the new position is taken
move_or_stamp(g, dx, dy) ==
    IF g.falling = NoPiece THEN [g EXCEPT !.outcome = PanicOf(PanicNoFalling)]
    ELSE LET new_pos == <<g.falling.pos[1] + dx, g.falling.pos[2] + dy>>
         IN  IF ~intersects_with(g.falling.mask, new_pos, g.board)
             THEN [g EXCEPT !.falling.pos = new_pos]
             ELSE [g EXCEPT !.board = print_onto(g.falling, g.board).board]

\* Game::move_falling_piece
move_falling_piece(g, dx, dy) ==
    IF g.falling = NoPiece THEN [g EXCEPT !.outcome = PanicOf(PanicNoFalling)]
    ELSE LET mask == mask_map(g.falling.id, g.falling.mask_idx)
             new_pos == <<g.falling.pos[1] + dx, g.falling.pos[2] + dy>>
         IN  IF ~intersects_with(mask, new_pos, g.board)
             THEN [g EXCEPT !.falling =
                      checked_reset_lock_delay([g.falling EXCEPT !.pos = new_pos])]
             ELSE g

\* the kick offsets with the far ones tried before the near ones
KicksFarFirst == << <<0, 0>>, <<0, -2>>, <<0, -1>>, <<0, 2>>, <<0, 1>>,
                    <<-2, 0>>, <<-1, 0>>, <<2, 0>>, <<1, 0>> >>

\* the kick offsets rotate_falling_piece tries, in order
KICKS == << <<0, 0>>, <<0, -1>>, <<0, -2>>, <<0, 1>>, <<0, 2>>,
            <<-1, 0>>, <<-2, 0>>, <<1, 0>>, <<2, 0>> >>

\* the first offset taken without the test
first_kick_untested(new_mask, pos, b, k) == k

\* the index of the first offset, from k on, at which new_mask fits; 0 if none
RECURSIVE first_kick(_, _, _, _)
first_kick(new_mask, pos, b, k) ==
    IF k > Len(KICKS) THEN 0
    ELSE IF ~intersects_with(new_mask, <<pos[1] + KICKS[k][1], pos[2] + KICKS[k][2]>>, b)
    THEN k
    ELSE first_kick(new_mask, pos, b, k + 1)

\* a rotation that turns nothing and counts as a frame
rotate_as_frame(g, di) == [g EXCEPT !.tick = g.tick + 1]

\* a hold that takes the next kind from the queue whatever the slot holds
switch_hold_from_queue(g, idx) ==
    IF ~g.can_switch \/ g.falling = NoPiece THEN g
    ELSE LET r == PieceQueue_pop(g.piece_queue, idx)
         IN  [g EXCEPT !.can_switch = FALSE, !.hold = g.falling.id,
                       !.piece_queue = r.pq,
                       !.falling = [id |-> r.out, pos |-> SpawnPos, mask_idx |-> 0,
                                    mask |-> mask_map(r.out, 0),
                                    lock_delay |-> LOCK_DELAY,
                                    lock_delay_resets |-> LOCK_DELAY_RESETS]]

\* the index turned the other way
new_mask_idx_reversed(mask_idx, di) == (mask_idx + 4 - di) % 4

\* Rust's a % b on isize: the remainder has the sign of a
rust_rem(a, b) == IF a >= 0 THEN a % b ELSE 0 - ((0 - a) % b)

\* ((falling.mask_idx as isize + di % 4 + 4) % 4) as usize
new_mask_idx(mask_idx, di) == rust_rem(mask_idx + rust_rem(di, 4) + 4, 4)

\* Game::rotate_falling_piece
rotate_falling_piece(g, di) ==
    IF g.falling = NoPiece THEN [g EXCEPT !.outcome = PanicOf(PanicNoFalling)]
    ELSE LET new_idx == new_mask_idx(g.falling.mask_idx, di)
             new_mask == mask_map(g.falling.id, new_idx)
             k == first_kick(new_mask, g.falling.pos, g.board, 1)
         IN  IF k = 0 THEN g
             ELSE [g EXCEPT !.falling = checked_reset_lock_delay(
                      [g.falling EXCEPT
                          !.pos = <<g.falling.pos[1] + KICKS[k][1],
                                    g.falling.pos[2] + KICKS[k][2]>>,
                          !.mask_idx = new_idx,
                          !.mask = new_mask])]

\* the hard_drop loop testing an empty board: the piece drops to the floor
RECURSIVE drop_delta_to_floor(_, _, _, _)
drop_delta_to_floor(mask, pos, b, delta) ==
    IF ~intersects_with(mask, <<pos[1], pos[2] + delta + 1>>, EmptyBoard)
    THEN drop_delta_to_floor(mask, pos, b, delta + 1)
    ELSE delta

\* a drop that leaves the piece where it is
drop_delta_in_place(mask, pos, b, delta) == delta

\* while !intersects_with(mask, (pos.0, pos.1 + delta + 1), board) { delta += 1 }
RECURSIVE drop_delta(_, _, _, _)
drop_delta(mask, pos, b, delta) ==
    IF ~intersects_with(mask, <<pos[1], pos[2] + delta + 1>>, b)
    THEN drop_delta(mask, pos, b, delta + 1)
    ELSE delta

\* a hard drop that pays the rows dropped only
DropPointsRowsOnly(delta) == delta

\* self.points += delta + 1
DropPoints(delta) == delta + 1

\* Game::hard_drop
hard_drop(g, idx) ==
    LET g1 == Game_compact_board(g)
    IN  IF g1.outcome # Running THEN g1
        ELSE IF g1.falling = NoPiece THEN [g1 EXCEPT !.outcome = PanicOf(PanicNoFalling)]
        ELSE LET delta == drop_delta(g1.falling.mask, g1.falling.pos, g1.board, 0)
                 g2 == [g1 EXCEPT !.falling.pos =
                           <<g1.falling.pos[1], g1.falling.pos[2] + delta>>]
                 g3 == destroy_falling_and_respawn(g2, idx)
             IN  IF g3.outcome # Running THEN g3
                 ELSE [g3 EXCEPT !.points = g3.points + DropPoints(delta)]

\* a hold slot that is never spent
HoldNeverSpent(g) == FALSE

\* if self.can_switch { .. }: nothing is done when the flag is down
HoldSpent(g) == ~g.can_switch

\* Game::switch_hold
switch_hold(g, idx) ==
    IF HoldSpent(g) THEN g
    ELSE LET old == g.hold
         IN  IF g.falling = NoPiece
             THEN [g EXCEPT !.can_switch = FALSE, !.hold = NoHold,
                            !.outcome = PanicOf(PanicNoFalling)]
             ELSE LET g1 == [g EXCEPT !.can_switch = FALSE, !.hold = g.falling.id,
                                      !.falling = NoPiece]
                  IN  IF old # NoHold THEN spawn_with_id(g1, old) ELSE spawn(g1, idx)

\* Game::new; i1..i3 are the indices PieceQueue::new draws, idx the one the
\* first spawn's pop draws
Game_new(i1, i2, i3, idx) ==
    spawn([board |-> EmptyBoard, piece_queue |-> PieceQueue_new(i1, i2, i3),
           falling |-> NoPiece, hold |-> NoHold, can_switch |-> TRUE,
           tick |-> 0, points |-> 0, level |-> 1, cleared |-> 0,
           outcome |-> Running, locks |-> 0], idx)

\* the index of cell (abs_x, abs_y) taken column by column
CellIndexByColumn(abs_x, abs_y) == abs_x * GAME_HEIGHT + abs_y

\* abs_y as usize * GAME_WIDTH + abs_x as usize
CellIndex(abs_x, abs_y) == abs_y * GAME_WIDTH + abs_x

\* the board's rows concatenated: 0.0 for an empty pixel, 1.0 for a full one
\* (written 0 and 1), cell i counted from 0
board_cells(b) ==
    [i \in 0..(GAME_WIDTH * GAME_HEIGHT - 1) |->
        IF is_empty(b[i \div GAME_WIDTH][i % GAME_WIDTH]) THEN 0 ELSE 1]

\* Game::get_cells: the board's cells with a 1.0 written at the index of
\* every cell of the falling piece; an index past the end panics
get_cells(g) ==
    IF g.falling = NoPiece THEN [cells |-> board_cells(g.board), panic |-> "none"]
    ELSE LET at == {CellIndex(g.falling.pos[1] + c[1], g.falling.pos[2] + c[2]) :
                        c \in MaskCells(g.falling.mask)}
         IN  IF \E i \in at : i < 0 \/ i >= GAME_WIDTH * GAME_HEIGHT
             THEN [cells |-> board_cells(g.board), panic |-> IndexPanic]
             ELSE [cells |-> [i \in 0..(GAME_WIDTH * GAME_HEIGHT - 1) |->
                                 IF i \in at THEN 1 ELSE board_cells(g.board)[i]],
                   panic |-> "none"]

----------------------------------------------------------------------------
(* Values of the fields no call has filled *)

NoCall == [op |-> "none"]
NoDriver ==
    [ops |-> {}, moves |-> {}, ticks |-> 0, steers |-> 0, drops |-> 0, seed |-> 0,
     script |-> "None", made |-> 0, draws |-> <<>>]

\* a Game no operation of which is called: the frame of the function checks
GameUnused ==
    /\ piece_queue = [bag |-> <<>>, queue |-> <<>>]
    /\ falling = NoPiece
    /\ hold = NoHold
    /\ can_switch = TRUE
    /\ tick = 0
    /\ outcome = Running
    /\ locks = 0
    /\ driver = NoDriver

----------------------------------------------------------------------------
(* The collision oracle on its own: intersects_with called once on a mask, *)
(* a position and a board drawn from the sets below.                       *)

\* positions reach this many cells past each edge of the board
OracleMargin == 4

OraclePositions ==
    ((0 - OracleMargin)..(GAME_WIDTH - 1 + OracleMargin))
        \X ((0 - OracleMargin)..(GAME_HEIGHT - 1 + OracleMargin))

\* every rotation of every kind, every mask of one cell, and the empty mask
OracleMasks ==
    {mask_map(id, idx) : id \in PieceId, idx \in 0..3}
        \cup {MaskOf({c}) : c \in (0..3) \X (0..3)}
        \cup {MaskOf({})}

\* an empty board, and one with a stack whose surface is uneven
OracleStack ==
    [y \in 0..(GAME_HEIGHT - 1) |->
        [x \in 0..(GAME_WIDTH - 1) |->
            IF y >= GAME_HEIGHT - 1 - (x % 3) /\ x # 4
            THEN Full(ALL[(x % 7) + 1]) ELSE Empty]]

OracleBoards == {EmptyBoard, OracleStack}

InitOracle ==
    /\ board \in OracleBoards
    /\ \E m \in OracleMasks, p \in OraclePositions :
           call = [op |-> "input", mask |-> m, pos |-> p]
    /\ points = 0 /\ level = 1 /\ cleared = 0
    /\ GameUnused

OracleCall ==
    /\ call.op = "input"
    /\ LET r == intersects_with_call(call.mask, call.pos, board)
       IN  call' = [op |-> "intersects_with", mask |-> call.mask, pos |-> call.pos,
                    ret |-> r.ret, panicked |-> r.panicked]
    /\ UNCHANGED <<board, piece_queue, falling, hold, can_switch, tick, points,
                   level, cleared, outcome, locks, driver>>

NextOracle == OracleCall

SpecOracle == InitOracle /\ [][NextOracle]_vars

\* The cell of the board a set mask cell c lands on is blocked: outside
\* [0,10) x [0,20), or Occupied
Blocked(c, pos, b) ==
    LET ax == pos[1] + c[1]
        ay == pos[2] + c[2]
    IN  \/ ~(0 <= ax /\ ax < 10 /\ 0 <= ay /\ ay < 20)
        \/ b[ay][ax] # Empty

\* C1: intersects_with(mask, (x,y), board) returns true iff some set mask
\* cell lands outside the board or on an Occupied cell, false otherwise, and
\* it never panics on an index, however far out the position is.
C1_IntersectsIffBlocked ==
    call.op = "intersects_with" =>
        /\ ~call.panicked
        /\ call.ret <=> \E c \in MaskCells(call.mask) : Blocked(c, call.pos, board)

\* C1 witness: a call at a position left of the board returned true, and no
\* cell of the mask lies on an Occupied cell
C1_Witness ==
    /\ call.op = "intersects_with"
    /\ call.ret
    /\ call.pos[1] < 0
    /\ board = EmptyBoard

----------------------------------------------------------------------------
(* The PieceQueue on its own: PieceQueue::new, then pop() again and again, *)
(* the rng free to return any index in range at every draw.  The call      *)
(* record numbers the pops and keeps the kinds the pops of the current     *)
(* group of 7 (pops 7j+1 .. 7j+7) have returned, the kind the pop before   *)
(* the last returned (last), whether that pop returned the kind of the one *)
(* before it (doubled), and for one kind, the watched one: the pops        *)
(* that have returned other kinds since a pop last returned it (gap, -1    *)
(* before its first) and, when the last pop returned it, the gap it closed *)
(* (between, -1 otherwise).                                                *)

MaxPops == 15

\* the kinds watched: the rng may return any index at every draw, so that a
\* bag is drawn in every order and what holds of one kind holds of all
WatchedKinds == {ALL[1]}

InitQueue ==
    /\ \E i1 \in 0..6, i2 \in 0..5, i3 \in 0..4 :
           piece_queue = PieceQueue_new(i1, i2, i3)
    /\ \E w \in WatchedKinds :
           call = [op |-> "PieceQueue::new", n |-> 0, out |-> "None", drawn |-> "None",
                   before |-> <<>>, group |-> {}, repeated |-> FALSE,
                   last |-> "None", doubled |-> FALSE,
                   watch |-> w, gap |-> -1, between |-> -1]
    /\ board = EmptyBoard
    /\ falling = NoPiece /\ hold = NoHold /\ can_switch = TRUE
    /\ tick = 0 /\ points = 0 /\ level = 1 /\ cleared = 0
    /\ outcome = Running /\ locks = 0 /\ driver = NoDriver

QueuePop ==
    /\ call.n < MaxPops
    /\ \E idx \in 0..(DrawLen(piece_queue.bag) - 1) :
           LET r == PieceQueue_pop(piece_queue, idx)
               fresh == call.n % 7 = 0
           IN  /\ piece_queue' = r.pq
               /\ call' = [op |-> "pop", n |-> call.n + 1, out |-> r.out,
                           drawn |-> pop_from_bag(piece_queue.bag, idx).id,
                           before |-> piece_queue.queue,
                           group |-> IF fresh THEN {r.out} ELSE call.group \cup {r.out},
                           repeated |-> ~fresh /\ r.out \in call.group,
                           last |-> call.out, doubled |-> call.out = call.last,
                           watch |-> call.watch,
                           gap |-> IF r.out = call.watch THEN 0
                                   ELSE IF call.gap < 0 THEN call.gap
                                   ELSE call.gap + 1,
                           between |-> IF r.out = call.watch THEN call.gap ELSE -1]
    /\ UNCHANGED <<board, falling, hold, can_switch, tick, points, level, cleared,
                   outcome, locks, driver>>

NextQueue == QueuePop

SpecQueue == InitQueue /\ [][NextQueue]_vars

\* C8: numbering the pops from 1, pops 7j+1 .. 7j+7 return each of the 7
\* kinds exactly once, whatever indices the rng returns: no pop returns a
\* kind an earlier pop of its group returned, and a full group holds all 7.
C8_EachGroupOfSevenIsABag ==
    call.op = "pop" =>
        /\ ~call.repeated
        /\ call.n % 7 = 0 => call.group = PieceId

\* C8 witness: the 14th pop has closed the second group
C8_Witness ==
    /\ call.op = "pop"
    /\ call.n = 14
    /\ call.group = PieceId

\* C9: after PieceQueue::new and after every pop the buffer holds exactly 3
\* kinds; pop returns the kind that was at the front, keeps the other two in
\* order, and appends the one kind it drew from the bag.
C9_BufferOfThree ==
    /\ Len(piece_queue.queue) = 3
    /\ call.op = "pop" =>
          /\ call.out = call.before[1]
          /\ piece_queue.queue[1] = call.before[2]
          /\ piece_queue.queue[2] = call.before[3]
          /\ piece_queue.queue[3] = call.drawn
          /\ call.drawn \notin SeqOf(piece_queue.bag)

\* C9 witness: a pop whose draw refilled the bag
C9_Witness ==
    /\ call.op = "pop"
    /\ Len(piece_queue.bag) = 6
    /\ Len(piece_queue.queue) = 3

----------------------------------------------------------------------------
(* compact_board on its own: called twice in a row on a board and counters *)
(* drawn from the sets below.                                              *)

\* the boards hold at most this many full rows, at any row indices
MaxFullRows == 4
\* the rows above this one are empty unless they are full
CompactTop == 2
\* compact_board is called this many times in a row
CompactCalls == 2

\* a row of the stack: one hole, at a column that tells the rows apart
StackRow(y) ==
    [x \in 0..(GAME_WIDTH - 1) |->
        IF x = y % GAME_WIDTH THEN Empty ELSE Full(ALL[(y \div GAME_WIDTH) + 1])]

FullRow(y) == [x \in 0..(GAME_WIDTH - 1) |-> Full(ALL[(y % 7) + 1])]

\* the board whose full rows are the rows F
BoardWithFullRows(F) ==
    [y \in 0..(GAME_HEIGHT - 1) |->
        IF y \in F THEN FullRow(y)
        ELSE IF y < CompactTop THEN EmptyRow
        ELSE StackRow(y)]

CompactBoards ==
    {BoardWithFullRows(F) :
        F \in {G \in SUBSET (0..(GAME_HEIGHT - 1)) : Cardinality(G) <= MaxFullRows}}

\* a new game's counters, and those of a game two rows short of level 2
CompactCounters == {<<0, 0>>, <<8, 700>>}

InitCompact ==
    /\ board \in CompactBoards
    /\ \E c \in CompactCounters :
           /\ cleared = c[1]
           /\ points = c[2]
           /\ level = (c[1] \div 10) + 1
    /\ call = [op |-> "input", n |-> 0]
    /\ GameUnused

CompactBoard ==
    /\ outcome = Running
    /\ call.n < CompactCalls
    /\ LET r == compact_board(board, points, cleared)
       IN  /\ board' = r.board
           /\ points' = r.points
           /\ cleared' = r.cleared
           /\ level' = r.level
           /\ outcome' = r.outcome
           /\ call' = [op |-> "compact_board", n |-> call.n + 1,
                       shift_up |-> r.shift_up,
                       before |-> [board |-> board, points |-> points,
                                   level |-> level, cleared |-> cleared]]
    /\ UNCHANGED <<piece_queue, falling, hold, can_switch, tick, locks, driver>>

NextCompact == CompactBoard

SpecCompact == InitCompact /\ [][NextCompact]_vars

\* the rows of board b from the top down
RowsOf(b) == [i \in 1..GAME_HEIGHT |-> b[i - 1]]

NotFull(row) == \E x \in 0..(GAME_WIDTH - 1) : row[x] = Empty

\* the rows of b that are not full, from the top down
KeptRows(b) == SelectSeq(RowsOf(b), NotFull)

\* the number of full rows the call was given
FoundFull == GAME_HEIGHT - Len(KeptRows(call.before.board))

\* compact_board removed the k full rows of board a and left board b: the
\* top k rows of b are empty, the rows below are a's other rows in order
Compacted(a, b) ==
    LET kept == KeptRows(a)
        k == GAME_HEIGHT - Len(kept)
    IN  /\ \A y \in 0..(k - 1) : \A x \in 0..(GAME_WIDTH - 1) : b[y][x] = Empty
        /\ \A j \in 1..Len(kept) : b[k + j - 1] = kept[j]

\* C3 (as claimed): for any board with k <= 4 full rows, at any row indices,
\* compact_board leaves the top k rows empty and below them the board's other
\* rows in their order; no full row remains.
C3_CompactRemovesFullRows ==
    (call.op = "compact_board" /\ FoundFull <= 4) =>
        /\ Compacted(call.before.board, board)
        /\ \A y \in 0..(GAME_HEIGHT - 1) : NotFull(board[y])

\* C4 (as claimed): a second compact_board call right after the first
\* leaves board, points, cleared and level as the first call left them.
C4_SecondCompactChangesNothing ==
    (call.op = "compact_board" /\ call.n = 2) =>
        /\ board = call.before.board
        /\ points = call.before.points
        /\ cleared = call.before.cleared
        /\ level = call.before.level

\* 0, 40, 100, 300, 1200 points for 0, 1, 2, 3, 4 rows
TableAward(n) == IF n = 0 THEN 0 ELSE IF n = 1 THEN 40 ELSE IF n = 2 THEN 100
                 ELSE IF n = 3 THEN 300 ELSE 1200

\* C5 (as claimed): a compaction that finds n full rows, n in 0..4, at level
\* L (the level when the call starts) adds exactly L times 0, 40, 100, 300,
\* 1200 points.
C5_AwardAtLevelBefore ==
    (call.op = "compact_board" /\ FoundFull <= 4) =>
        points = call.before.points + call.before.level * TableAward(FoundFull)

\* C5 (amended): a compaction that finds n full rows, n in 0..4, adds exactly
\* 0, 40, 100, 300, 1200 points times the level after the n rows are counted,
\* (cleared + n) / 10 + 1 for the cleared count the call starts with; that is
\* the level L the call starts with unless the n rows reach the next multiple
\* of 10.
C5_AwardAtLevelAfter ==
    (call.op = "compact_board" /\ FoundFull <= 4) =>
        points = call.before.points
                   + (((call.before.cleared + FoundFull) \div 10) + 1) * TableAward(FoundFull)

\* C5 witness: 4 full rows found at level 1 with 8 rows cleared before: the
\* 1200 points are doubled
C5_Witness ==
    /\ call.op = "compact_board"
    /\ FoundFull = 4
    /\ call.before.level = 1
    /\ points = call.before.points + 2400

\* C6: each compaction adds to cleared exactly the number of full rows it
\* found, and in every state level = cleared / 10 + 1, from cleared 0 and
\* level 1 on.
C6_ClearedAndLevel ==
    /\ level = (cleared \div 10) + 1
    /\ call.op = "compact_board" => cleared = call.before.cleared + FoundFull

\* C6 witness: a compaction from cleared 8 found 2 full rows and the level
\* went from 1 to 2
C6_Witness ==
    /\ call.op = "compact_board"
    /\ call.before.cleared = 8
    /\ cleared = 10
    /\ call.before.level = 1
    /\ level = 2

----------------------------------------------------------------------------
(* The Game from Game::new, driven by a caller.  The caller (the driver)   *)
(* follows one of a few plans.  A plan names the operations it calls at    *)
(* will, how many iterate calls, steering calls (move, rotate,             *)
(* switch_hold) and hard drops it makes at most, and the moves it makes;   *)
(* a plan may also hold a script, a sequence of control calls it makes in  *)
(* that order in between.  Every plan fixes the queue's rng: its seed, or  *)
(* the indices it returns draw by draw before the seed takes over.         *)

AllOps == {"iterate", "move", "rotate", "hard_drop", "switch_hold"}

\* the moves the driver's keys make: left, right, down
DriverMoves == {<<-1, 0>>, <<1, 0>>, <<0, 1>>}

\* seeds of the queue's rng: seed s draws index min(s, len - 1) every time
MaxSeed == 1
\* the player: every operation, a few calls of each
PlayTicks == 1
PlaySteers == 2
PlayDrops == 1
\* the dropper: hard drops only, until the stack reaches the spawn cells
StackDrops == 14
\* the watcher: iterate only, until gravity has landed and locked a piece
WatchTicks == 1420
\* the liner: iterate calls in between its script
LineTicks == 1

Left == <<"move", -1, 0>>
Right == <<"move", 1, 0>>
Down == <<"move", 0, 1>>
Drop == <<"hard_drop">>

\* with seed 0 the kinds come I, J, L: the I goes to columns 6-9, the J stays
\* on columns 3-5, the L goes to columns 0-2, which completes row 19; one more
\* piece is dropped after that
LineScript == <<Right, Right, Right, Drop, Drop, Left, Left, Left, Drop, Drop>>

Rot == <<"rotate", 1>>
RotBack == <<"rotate", -1>>
Tick == <<"iterate">>
Hold == <<"switch_hold">>

Times(c, n) == [i \in 1..n |-> c]

\* with seed 0 the kinds come I, J, L, O, S, T, Z, I.  The first seven are
\* dropped so that the Z completes rows 18 and 19 while the O stands on
\* column 6 of row 17 and overhangs column 5, rows 15 and 16.  The second I
\* is then moved, with no iterate in between, down to row 17 and under the
\* O; the hard drop that follows compacts the two rows first, which lowers
\* the O onto the I, and then locks the I where it is; so does the
\* compaction of an iterate called in between the script's last two calls
TuckScript ==
    <<Drop>>
    \o Times(Rot, 3) \o Times(Right, 5) \o <<Drop>>
    \o <<Right, Drop>>
    \o <<Right, Drop>>
    \o <<Left, Left, Drop>>
    \o <<Rot>> \o Times(Left, 4) \o <<Drop>>
    \o <<Rot>> \o Times(Right, 3) \o <<Drop>>
    \o <<Left, Left>> \o Times(Down, 16) \o <<Right, Drop>>

\* The indices the rng returns, draw by draw, for the kinds to come
\* L,J,S,T,O,I,Z  I,O,Z,T,L,J,S  I,Z,T,L,S,J,O  J,O,L,S,Z,I,T  J,O,L,S,Z,T,I
\* I,O and three more for the lookahead
CeilingDraws ==
    <<2, 1, 2, 2, 1, 0, 0, 0, 2, 4, 3, 1, 0, 0, 0, 5, 4, 1, 2, 0, 0, 1, 2, 1, 1, 2, 0, 0, 1, 2, 1, 1, 2, 1, 0, 0, 2, 0, 0, 0>>

\* 34 pieces build two towers, on columns 0-2 and 7-9 up to row 1, with rows
\* 16-19 full but for column 5, and fill row 0 on columns 0, 1 and 6-9.  The
\* 35th, an I, is turned twice at the top so that it lies on row 0, columns
\* 2-5, and is locked there: row 0 is full.  The 36th, an I, is turned upright
\* and dropped down column 5, which completes rows 16-19; the O that follows
\* is dropped as it spawns
CeilingScript ==
    <<Left, Left, Left, Drop>>
    \o <<Right, Right, Right, Drop>>
    \o <<Right, Right, Right, Right, Rot, Drop>>
    \o <<Right, Right, Right, RotBack, Drop>>
    \o <<Left, Drop>>
    \o <<Right, Right, Right, Rot, Right, Drop>>
    \o <<Right, Right, Rot, Drop>>
    \o <<Right, Right, Right, Rot, Drop>>
    \o <<Left, Left, Left, Left, Drop>>
    \o <<Left, Left, Drop>>
    \o <<RotBack, Drop>>
    \o <<Left, Left, Left, Rot, Rot, Drop>>
    \o <<Left, Left, Left, Drop>>
    \o <<Left, Left, Left, RotBack, Drop>>
    \o <<Left, Left, RotBack, Drop>>
    \o <<Right, Right, Rot, Drop>>
    \o <<Right, Right, Right, Right, RotBack, Right, Drop>>
    \o <<Right, Right, Right, Rot, Drop>>
    \o <<Left, Left, Left, RotBack, Drop>>
    \o <<Left, Left, RotBack, Drop>>
    \o <<Left, Left, Left, Left, Drop>>
    \o <<Left, Left, Left, Drop>>
    \o <<Right, Right, Right, Right, Drop>>
    \o <<Right, Right, Right, Right, Drop>>
    \o <<Right, Right, Right, Right, Drop>>
    \o <<Right, Right, Right, Rot, Drop>>
    \o <<Right, Right, Right, Rot, Right, Drop>>
    \o <<Right, Right, Right, Rot, Drop>>
    \o <<Left, Left, RotBack, Drop>>
    \o <<Left, Left, Left, Left, Drop>>
    \o <<Left, Left, Left, Rot, Left, Drop>>
    \o <<Left, Left, RotBack, Drop>>
    \o <<Right, Right, Right, Right, Rot, Drop>>
    \o <<Rot, Left, Rot, Right, Right, Right, Right, Drop>>
    \o <<Rot, Left, Rot, Drop>>
    \o <<Rot, Drop>>
    \o <<Drop>>

\* The O comes first and is dropped on columns 7-8, the I second: it is
\* turned upright, moved to column 9 and down to the floor.  Turning it there
\* fails at all 9 offsets, and so do the moves left (the O) and right (the
\* wall)
WedgeDraws == <<3, 0, 0, 0>>
WedgeScript ==
    <<Right, Right, Right, Drop>>
    \o <<Rot>> \o Times(Right, 4) \o Times(Down, 16) \o <<Rot, Left, Right, Drop>>

\* The L comes first and is dropped upright on column 4, rows 17-19, the I
\* second: it is turned upright and moved to column 0, where a move left
\* fails.  Turning it there needs a kick to the right, and (1,0) and (2,0)
\* both fit; it is turned back, moved to column 0 again and down to the floor.
\* Turning it there fits at (1,0) only: (2,0) is taken by the L
KickDraws == <<2, 0, 0, 0>>
KickScript ==
    <<Rot, Drop>>
    \o <<RotBack>> \o Times(Left, 5) \o <<Rot, RotBack, Left>>
    \o Times(Down, 16) \o <<Rot, Drop>>

\* The O comes first and is moved down until the floor rejects the move.  It
\* is moved left while its lock delay is still 5; the frame at tick 0 is a
\* gravity step and takes the delay to 4, and the move right resets it.  From
\* then on it is moved or turned once after every gravity step, 59 frames
\* apart, until no reset is left, and dropped with the delay at 4.  The
\* second piece is moved down to the floor and moved once after every five
\* gravity steps, each time with its delay at 0, until no reset is left; the
\* sixth gravity step after that locks it.  The third is put on hold, the fourth dropped, and the
\* fifth turned and moved down before the third is taken back
RestDraws == <<3, 0, 0, 0>>
RestRound(n, c) == Times(Tick, 59 * n) \o <<c>>
RestScript ==
    Times(Down, 20) \o <<Left, Tick, Right>>
    \o RestRound(1, Left) \o RestRound(1, Rot) \o RestRound(1, Right) \o RestRound(1, RotBack)
    \o RestRound(1, Left) \o RestRound(1, Right) \o RestRound(1, Left) \o RestRound(1, Right)
    \o RestRound(1, Left) \o RestRound(1, Right) \o RestRound(1, Left) \o <<Drop>>
    \o Times(Down, 20)
    \o RestRound(5, Left) \o RestRound(5, Right) \o RestRound(5, Left)
    \o RestRound(5, Right) \o RestRound(5, Left) \o RestRound(5, Right)
    \o RestRound(5, Left) \o RestRound(5, Right) \o RestRound(5, Left)
    \o RestRound(5, Right) \o Times(Tick, 6 * 59)
    \o <<Hold, Drop, Rot, Down, Hold>>

\* The indices the rng returns, draw by draw, for the kinds to come
\* I,T,J,L,Z,S,O  J,L,I,T,S,O,Z  J,T,O,L,Z,S,I  J,O,T,L,Z,S,I  L
LevelDraws ==
    <<0, 4, 0, 0, 2, 1, 0, 1, 1, 0, 2, 1, 0, 0, 1, 4, 2, 1, 2, 1, 0, 1, 2, 3, 1, 2, 1, 0, 2>>

\* 29 pieces are dropped so that the stack stays low and without holes: the
\* locks complete 10 rows, 9 of which are compacted by the hard drops that
\* follow them; the 10th, completed by the last piece, is compacted by the
\* iterate that follows, which takes cleared from 9 to 10 and level to 2.
\* One more piece is dropped at level 2
LevelScript ==
    <<Right, Right, Right, Drop>>
    \o <<Drop>>
    \o <<Left, Left, Left, Drop>>
    \o <<Left, Left, Drop>>
    \o <<Right, Drop>>
    \o <<Rot, Right, Right, Drop>>
    \o <<Right, Right, Right, Right, Drop>>
    \o <<Left, Left, Left, Drop>>
    \o <<Right, Right, Right, Right, Drop>>
    \o <<Left, Left, Drop>>
    \o <<Rot, Rot, Right, Drop>>
    \o <<Right, Right, Right, Right, Drop>>
    \o <<Left, Left, Left, Left, Drop>>
    \o <<Rot, Left, Drop>>
    \o <<Rot, Left, Left, Drop>>
    \o <<Right, Right, Drop>>
    \o <<Left, Left, Left, Left, Drop>>
    \o <<Right, Right, Right, Right, Drop>>
    \o <<Rot, Right, Drop>>
    \o <<Right, Right, Right, Right, Drop>>
    \o <<Rot, Right, Right, Drop>>
    \o <<Left, Drop>>
    \o <<Right, Right, Right, Right, Drop>>
    \o <<Drop>>
    \o <<Rot, Left, Left, Left, Left, Drop>>
    \o <<Right, Drop>>
    \o <<Rot, Right, Drop>>
    \o <<Rot, Left, Drop>>
    \o <<Left, Left, Drop>>
    \o <<Tick, Drop>>

\* the scripts by name; a plan keeps the name of its script and the number
\* of calls of it that it has made
Scripts ==
    [None |-> <<>>, Line |-> LineScript, Tuck |-> TuckScript,
     Ceiling |-> CeilingScript, Wedge |-> WedgeScript, Kick |-> KickScript,
     Rest |-> RestScript, Level |-> LevelScript]

Plan(ops, moves, ticks, steers, drops, seed, script) ==
    [ops |-> ops, moves |-> moves, ticks |-> ticks, steers |-> steers,
     drops |-> drops, seed |-> seed, script |-> script, made |-> 0,
     draws |-> <<>>]

\* the player (seed 0), the dropper, the watcher, the holder (hard drops
\* and switch_hold only), the liner and the plans that follow a script
Drivers ==
    {Plan(AllOps, DriverMoves, PlayTicks, PlaySteers, PlayDrops, 0, "None")}
    \cup {Plan({"iterate", "hard_drop"}, {}, 1, 0, StackDrops, s, "None") : s \in 0..MaxSeed}
    \cup {Plan({"iterate"}, {}, WatchTicks, 0, 0, s, "None") : s \in 0..MaxSeed}
    \cup {Plan({"hard_drop", "switch_hold"}, {}, 0, PlaySteers, StackDrops, s, "None") :
             s \in 0..MaxSeed}
    \cup {Plan({"iterate"}, {}, LineTicks, 0, 0, 0, "Line")}
    \cup {Plan({"iterate"}, {}, LineTicks, 0, 0, 0, "Tuck")}
    \cup {[Plan({}, {}, 0, 0, 0, 0, "Ceiling") EXCEPT !.draws = CeilingDraws]}
    \cup {[Plan({}, {}, 0, 0, 0, 0, "Wedge") EXCEPT !.draws = WedgeDraws]}
    \cup {[Plan({}, {}, 0, 0, 0, 0, "Kick") EXCEPT !.draws = KickDraws]}
    \cup {[Plan({}, {}, 0, 0, 0, 0, "Rest") EXCEPT !.draws = RestDraws]}
    \cup {[Plan({}, {}, 0, 0, 0, 0, "Level") EXCEPT !.draws = LevelDraws]}

\* the driver after it has made c as the next call of its script; empty if
\* the script is over or goes on with another call
Scripted(c) ==
    IF /\ driver.made < Len(Scripts[driver.script])
       /\ Scripts[driver.script][driver.made + 1] = c
    THEN {[driver EXCEPT !.made = driver.made + 1]} ELSE {}

\* the driver after it has made call c (an operation and its arguments): at
\* will, or as the next call of its script; empty if it does not make c
Steers(c) ==
    (IF /\ c[1] \in driver.ops
        /\ c[1] = "move" => <<c[2], c[3]>> \in driver.moves
        /\ driver.steers > 0
     THEN {[driver EXCEPT !.steers = driver.steers - 1]} ELSE {})
    \cup Scripted(c)

Drops ==
    (IF "hard_drop" \in driver.ops /\ driver.drops > 0
     THEN {[driver EXCEPT !.drops = driver.drops - 1]} ELSE {})
    \cup Scripted(Drop)

Ticks ==
    (IF "iterate" \in driver.ops /\ driver.ticks > 0
     THEN {[driver EXCEPT !.ticks = driver.ticks - 1]} ELSE {})
    \cup Scripted(Tick)

\* rng.gen_range(0, len) of the rng seeded s
gen_range(s, len) == Min(s, len - 1)

\* the index the next bag draw gets
NextIdx ==
    IF driver.draws # <<>> THEN Head(driver.draws)
    ELSE gen_range(driver.seed, DrawLen(piece_queue.bag))

\* the index the k-th draw of Game::new gets under plan p, the bag holding len
DrawIdx(p, k, len) ==
    IF k <= Len(p.draws) THEN p.draws[k] ELSE gen_range(p.seed, len)

\* driver d once the call that left the Game as g is over: a draw the call
\* made has used up the rng's next index
Drawn(d, g) ==
    IF g.piece_queue # piece_queue /\ d.draws # <<>>
    THEN [d EXCEPT !.draws = Tail(d.draws)] ELSE d

Self ==
    [board |-> board, piece_queue |-> piece_queue, falling |-> falling,
     hold |-> hold, can_switch |-> can_switch, tick |-> tick, points |-> points,
     level |-> level, cleared |-> cleared, outcome |-> outcome, locks |-> locks]

Is(g) ==
    /\ board = g.board
    /\ piece_queue = g.piece_queue
    /\ falling = g.falling
    /\ hold = g.hold
    /\ can_switch = g.can_switch
    /\ tick = g.tick
    /\ points = g.points
    /\ level = g.level
    /\ cleared = g.cleared
    /\ outcome = g.outcome
    /\ locks = g.locks

Becomes(g) ==
    /\ board' = g.board
    /\ piece_queue' = g.piece_queue
    /\ falling' = g.falling
    /\ hold' = g.hold
    /\ can_switch' = g.can_switch
    /\ tick' = g.tick
    /\ points' = g.points
    /\ level' = g.level
    /\ cleared' = g.cleared
    /\ outcome' = g.outcome
    /\ locks' = g.locks

Init ==
    \E p \in Drivers :
        /\ Is(Game_new(DrawIdx(p, 1, 7), DrawIdx(p, 2, 6), DrawIdx(p, 3, 5),
                       DrawIdx(p, 4, 4)))
        /\ driver = [p EXCEPT !.draws = SubSeq(p.draws, 5, Len(p.draws))]
        /\ call = [op |-> "new", args |-> <<>>, lines |-> 0, locked |-> FALSE,
                   spawn |-> ALL[DrawIdx(p, 1, 7) + 1], swapped_before |-> FALSE,
                   swapped |-> FALSE, rested_before |-> 0, rested |-> 0,
                   resets_got |-> 0, decrements |-> 0,
                   base_before |-> LOCK_DELAY, base |-> LOCK_DELAY]

\* the kind a call tried to spawn, "None" if it spawned nothing: the front of
\* the queue when the call popped it, the held kind when switch_hold took it
SpawnTried(op) ==
    IF piece_queue' # piece_queue THEN Head(piece_queue.queue)
    ELSE IF op = "switch_hold" /\ can_switch /\ hold # NoHold /\ falling # NoPiece
    THEN hold
    ELSE "None"

\* the call changed the Game
Changed == ~Is([Self EXCEPT !.board = board', !.piece_queue = piece_queue',
                            !.falling = falling', !.hold = hold',
                            !.can_switch = can_switch', !.tick = tick',
                            !.points = points', !.level = level',
                            !.cleared = cleared', !.outcome = outcome',
                            !.locks = locks'])

\* iterate's frame is a gravity step: the tick is divisible by the interval of
\* the level its compaction leaves
OnGravityTick ==
    tick % frames_per_row(compact_board(board, points, cleared).level) = 0

\* the falling piece rests on the board iterate's compaction leaves
RestsCompacted ==
    /\ falling # NoPiece
    /\ is_touching_ground(falling, compact_board(board, points, cleared).board)

\* the call put a new piece into play, or moved or turned the one in play
Renewed(op) ==
    \/ locks' > locks
    \/ op \in {"move", "rotate", "switch_hold"} /\ falling' # falling

\* a call that puts another piece in play, or none: one that stamps a piece
\* or a switch_hold that changes the Game
NewInPlay(op) ==
    \/ locks' > locks
    \/ op = "switch_hold" /\ Changed
    \/ falling = NoPiece \/ falling' = NoPiece

\* what the call record keeps of a call: its arguments, the Game before it,
\* the rows its compaction found full (0 when it compacts nothing), whether
\* it stamped a piece, the kind it tried to spawn, and whether a switch_hold
\* has changed the Game since the last piece was stamped, as it was before
\* the call and as it is after it.  base is the lock delay the piece in play
\* had when it was spawned or last moved or turned, rested the gravity steps
\* that have found it resting since then; resets_got and decrements count
\* the times the lock delay of the piece in play has gone up and down since
\* it came into play
Called(op, args, lines) ==
    call' = [op |-> op, args |-> args, lines |-> lines, locked |-> locks' > locks,
             spawn |-> SpawnTried(op), before |-> Self,
             swapped_before |-> call.swapped,
             swapped |-> IF locks' > locks THEN FALSE
                         ELSE IF op = "switch_hold" /\ Changed THEN TRUE
                         ELSE call.swapped,
             rested_before |-> call.rested,
             rested |-> IF Renewed(op) THEN 0
                        ELSE IF op = "iterate" /\ OnGravityTick /\ RestsCompacted
                        THEN call.rested + 1 ELSE call.rested,
             base_before |-> call.base,
             base |-> IF Renewed(op)
                      THEN IF falling' = NoPiece THEN LOCK_DELAY
                           ELSE falling'.lock_delay
                      ELSE call.base,
             resets_got |-> IF NewInPlay(op) THEN 0
                            ELSE IF falling'.lock_delay > falling.lock_delay
                            THEN call.resets_got + 1 ELSE call.resets_got,
             decrements |-> IF NewInPlay(op) THEN 0
                            ELSE IF falling'.lock_delay < falling.lock_delay
                            THEN call.decrements + 1 ELSE call.decrements]

Iterate ==
    /\ outcome = Running
    /\ \E d \in Ticks : \E g \in {iterate(Self, NextIdx)} :
           Becomes(g) /\ driver' = Drawn(d, g)
    /\ Called("iterate", <<>>, compact_board(board, points, cleared).shift_up)

MoveFallingPiece ==
    /\ outcome = Running
    /\ \E m \in DriverMoves : \E d \in Steers(<<"move", m[1], m[2]>>) :
           \E g \in {move_falling_piece(Self, m[1], m[2])} :
               /\ Becomes(g) /\ driver' = Drawn(d, g)
               /\ Called("move", m, 0)

RotateFallingPiece ==
    /\ outcome = Running
    /\ \E di \in {1, -1} : \E d \in Steers(<<"rotate", di>>) :
           \E g \in {rotate_falling_piece(Self, di)} :
               /\ Becomes(g) /\ driver' = Drawn(d, g)
               /\ Called("rotate", <<di>>, 0)

HardDrop ==
    /\ outcome = Running
    /\ \E d \in Drops : \E g \in {hard_drop(Self, NextIdx)} :
           Becomes(g) /\ driver' = Drawn(d, g)
    /\ Called("hard_drop", <<>>, compact_board(board, points, cleared).shift_up)

SwitchHold ==
    /\ outcome = Running
    /\ \E d \in Steers(<<"switch_hold">>) : \E g \in {switch_hold(Self, NextIdx)} :
           Becomes(g) /\ driver' = Drawn(d, g)
    /\ Called("switch_hold", <<>>, 0)

\* the caller reads the cells, once in between two calls that change the Game
GetCells ==
    /\ outcome = Running
    /\ call.op # "get_cells"
    /\ LET r == get_cells(Self)
       IN  /\ call' = [op |-> "get_cells", args |-> <<>>, lines |-> 0,
                       locked |-> FALSE, spawn |-> "None", before |-> Self,
                       swapped_before |-> call.swapped,
                       swapped |-> call.swapped, rested_before |-> call.rested,
                       rested |-> call.rested, base_before |-> call.base,
                       base |-> call.base, resets_got |-> call.resets_got,
                       decrements |-> call.decrements, cells |-> r.cells]
           /\ outcome' = IF r.panic = "none" THEN outcome ELSE PanicOf(r.panic)
    /\ UNCHANGED <<board, piece_queue, falling, hold, can_switch, tick, points,
                   level, cleared, locks, driver>>

Next ==
    \/ Iterate
    \/ MoveFallingPiece
    \/ RotateFallingPiece
    \/ HardDrop
    \/ SwitchHold
    \/ GetCells

Spec == Init /\ [][Next]_vars

----------------------------------------------------------------------------
(* Claims about the Game under Spec *)

\* C2: under any interleaving of iterate, move, rotate, hard_drop and
\* switch_hold from a new game, no lock stamps a piece onto an Occupied cell:
\* no call ends in print_onto's panic "intersected with board while printing
\* onto it".
C2_NoPrintPanic == outcome.kind # PanicPrint

\* C7: no compact_board call finds more than 4 full rows: no call of iterate
\* or hard_drop ends in the panic "unexpected n lines cleared".
C7_AtMostFourRows ==
    /\ outcome.kind # PanicLines
    /\ call.lines <= 4

\* C10: a call that tries to spawn kind k ends in Lost, carrying the game's
\* points, level and cleared and leaving no falling piece, if k's rotation-0
\* mask at the spawn position intersects the board; if it does not intersect
\* the call does not end in Lost and the piece falls from the spawn position;
\* and no call that spawns nothing ends in Lost.
C10_LostIffSpawnBlocked ==
    /\ call.spawn = "None" => outcome.kind # LostKind
    /\ (call.spawn # "None" /\ outcome.kind \in {"Running", LostKind}) =>
          IF intersects_with(mask_map(call.spawn, 0), <<3, 0>>, board)
          THEN /\ outcome.kind = LostKind
               /\ outcome.points = points
               /\ outcome.level = level
               /\ outcome.cleared = cleared
               /\ falling = NoPiece
          ELSE /\ outcome = Running
               /\ falling # NoPiece
               /\ falling.id = call.spawn
               /\ falling.pos = <<3, 0>>

\* C10 witness: a hard drop's spawn was blocked and the game is Lost with
\* the points earned so far
C10_Witness ==
    /\ outcome.kind = LostKind
    /\ call.op = "hard_drop"
    /\ call.spawn # "None"
    /\ outcome.points > 0

\* C11 (as claimed): Lost reaches the caller another way than the failures
\* "no falling piece", "intersected with board while printing onto it" and
\* "unexpected n lines cleared" do.
C11_LostNotViaPanic ==
    outcome.kind = LostKind =>
        \A msg \in {PanicNoFalling, PanicPrint, PanicLines} :
            outcome.via # PanicOf(msg).via

Hits(mask, pos, b) == \E c \in MaskCells(mask) : Blocked(c, pos, b)

\* the largest k such that mask hits nothing at (x,y+1), .., (x,y+k)
DropRows(mask, pos, b) ==
    CHOOSE k \in 0..GAME_HEIGHT :
        /\ \A j \in 1..k : ~Hits(mask, <<pos[1], pos[2] + j>>, b)
        /\ Hits(mask, <<pos[1], pos[2] + k + 1>>, b)

\* board b with the cells of mask at pos set to kind id
Stamped(b, mask, id, pos) ==
    [y \in 0..(GAME_HEIGHT - 1) |->
        [x \in 0..(GAME_WIDTH - 1) |->
            IF <<x - pos[1], y - pos[2]>> \in MaskCells(mask) THEN id ELSE b[y][x]]]

C14_HoldOncePerPiece ==
    call.op = "switch_hold" =>
        /\ (Self # call.before) <=> ~call.swapped_before
        /\ call.swapped_before => (Self = call.before /\ outcome = Running)

\* C14 witness: a switch_hold after a lock changed the Game though one had
\* changed it before that lock
C14_Witness ==
    /\ call.op = "switch_hold"
    /\ locks >= 1
    /\ call.before.hold # NoHold
    /\ ~call.swapped_before
    /\ Self # call.before

\* the queue of q after one pop, whatever index the rng returned
Popped(q) ==
    {PieceQueue_pop(q, idx).pq : idx \in 0..(DrawLen(q.bag) - 1)}

\* C15 (as claimed): a switch_hold that takes effect puts the falling kind
\* into the hold slot; the new falling piece has the kind the slot held and
\* the queue is unchanged, or, the slot being empty, the kind at the front of
\* the queue, which advances by one pop; board, points, level, cleared and
\* tick are unchanged.
C15_HoldSwap ==
    (call.op = "switch_hold" /\ Self # call.before) =>
        /\ hold = call.before.falling.id
        /\ falling # NoPiece
        /\ IF call.before.hold # NoHold
           THEN /\ falling.id = call.before.hold
                /\ piece_queue = call.before.piece_queue
           ELSE /\ falling.id = Head(call.before.piece_queue.queue)
                /\ piece_queue \in Popped(call.before.piece_queue)
        /\ board = call.before.board
        /\ points = call.before.points
        /\ level = call.before.level
        /\ cleared = call.before.cleared
        /\ tick = call.before.tick

\* C15 (amended): as claimed, but for the new falling piece: there is one,
\* of the kind taken from the slot or the queue, unless that kind's spawn is
\* blocked; the call then ends in Lost with no falling piece, the hold slot
\* and the queue changed all the same.
C15_HoldSwapOrLost ==
    (call.op = "switch_hold" /\ Self # call.before) =>
        LET kind == IF call.before.hold # NoHold THEN call.before.hold
                    ELSE Head(call.before.piece_queue.queue)
        IN  /\ hold = call.before.falling.id
            /\ IF Hits(mask_map(kind, 0), <<3, 0>>, board)
               THEN outcome.kind = LostKind /\ falling = NoPiece
               ELSE outcome = Running /\ falling # NoPiece /\ falling.id = kind
            /\ IF call.before.hold # NoHold
               THEN piece_queue = call.before.piece_queue
               ELSE piece_queue \in Popped(call.before.piece_queue)
            /\ board = call.before.board
            /\ points = call.before.points
            /\ level = call.before.level
            /\ cleared = call.before.cleared
            /\ tick = call.before.tick

\* C15 witness: a switch_hold took the held kind, whose spawn was blocked by
\* the stack: the game is Lost and the falling kind is in the slot
C15_Witness ==
    /\ call.op = "switch_hold"
    /\ call.before.hold # NoHold
    /\ outcome.kind = LostKind
    /\ hold = call.before.falling.id

\* the 9 offsets in the order claimed
ClaimedKicks == << <<0, 0>>, <<0, -1>>, <<0, -2>>, <<0, 1>>, <<0, 2>>,
                   <<-1, 0>>, <<-2, 0>>, <<1, 0>>, <<2, 0>> >>

\* the mask of the piece f turned by di quarter turns
Turned(f, di) == MaskOf(MaskCellTable[f.id][((f.mask_idx + di) % 4) + 1])

\* the k-th claimed offset fits: f turned by di and shifted by it hits nothing
Fits(f, di, k, b) ==
    ~Hits(Turned(f, di), <<f.pos[1] + ClaimedKicks[k][1],
                           f.pos[2] + ClaimedKicks[k][2]>>, b)

\* C16: move_falling_piece(dx,dy) sets the position to (x+dx,y+dy), kind and
\* rotation unchanged, iff the mask hits nothing there; when it does, and
\* when rotate_falling_piece finds all 9 offsets blocked, the call returns
\* and leaves every field of the Game as it was, the piece's position,
\* rotation, mask, lock delay and reset budget included.
C16_MoveOrNothing ==
    /\ call.op = "move" =>
          LET f == call.before.falling
              to == <<f.pos[1] + call.args[1], f.pos[2] + call.args[2]>>
          IN  IF Hits(f.mask, to, call.before.board)
              THEN Self = call.before
              ELSE /\ falling # NoPiece
                   /\ falling.pos = to
                   /\ falling.id = f.id
                   /\ falling.mask_idx = f.mask_idx
                   /\ falling.mask = f.mask
    /\ (/\ call.op = "rotate"
        /\ \A k \in 1..9 :
               ~Fits(call.before.falling, call.args[1], k, call.before.board))
          => Self = call.before

\* C16 witness: a turn of the I standing on the floor in column 9 was
\* rejected at all 9 offsets
C16_Witness ==
    /\ call.op = "rotate"
    /\ Self = call.before
    /\ falling.id = "IBlock"
    /\ falling.pos = <<7, 16>>
    /\ \A k \in 1..9 : ~Fits(falling, call.args[1], k, board)

\* C17: rotate_falling_piece takes the first of the 9 offsets, in the
\* claimed order, at which the turned mask hits nothing: the piece gets the
\* new rotation index, the new mask and its position shifted by that offset;
\* so when only (1,0) fits the position is shifted by (1,0).
C17_FirstFittingKick ==
    call.op = "rotate" =>
        LET f == call.before.falling
            di == call.args[1]
            b == call.before.board
        IN  \A k \in 1..9 :
                (Fits(f, di, k, b) /\ \A j \in 1..(k - 1) : ~Fits(f, di, j, b)) =>
                    /\ falling # NoPiece
                    /\ falling.pos = <<f.pos[1] + ClaimedKicks[k][1],
                                       f.pos[2] + ClaimedKicks[k][2]>>
                    /\ falling.mask_idx = (f.mask_idx + di) % 4
                    /\ falling.mask = Turned(f, di)

\* C17 witness: the I upright in column 0 was turned with the L at its
\* right: of the 9 offsets only (1,0) fits, and the I lies one column to the
\* right of where it was
C17_Witness ==
    /\ call.op = "rotate"
    /\ \A k \in 1..9 :
           Fits(call.before.falling, call.args[1], k, call.before.board) <=> k = 8
    /\ falling.pos = <<call.before.falling.pos[1] + 1, call.before.falling.pos[2]>>
    /\ falling.mask_idx # call.before.falling.mask_idx

\* C18: in every state every cell the falling piece covers lies inside
\* [0,10) x [0,20), and no call panics on an index outside the board.
C18_PieceInBounds ==
    /\ falling # NoPiece =>
          \A c \in MaskCells(falling.mask) :
              /\ 0 <= falling.pos[1] + c[1] /\ falling.pos[1] + c[1] < 10
              /\ 0 <= falling.pos[2] + c[2] /\ falling.pos[2] + c[2] < 20
    /\ outcome.kind # IndexPanic

\* C18 witness: the falling piece stands on the floor against the right wall
C18_Witness ==
    /\ falling # NoPiece
    /\ \E c \in MaskCells(falling.mask) :
           falling.pos[1] + c[1] = 9 /\ falling.pos[2] + c[2] = 19
    /\ outcome = Running

\* C19: get_cells returns exactly 200 values, that of cell (x,y) at index
\* y*10+x: 1.0 iff the board's cell is Occupied or the falling piece covers
\* it, 0.0 otherwise; the call changes nothing.
C19_CellsSnapshot ==
    call.op = "get_cells" =>
        /\ DOMAIN call.cells = 0..199
        /\ \A x \in 0..9, y \in 0..19 :
               call.cells[y * 10 + x] =
                   IF \/ board[y][x] # Empty
                      \/ /\ falling # NoPiece
                         /\ <<x - falling.pos[1], y - falling.pos[2]>>
                                \in MaskCells(falling.mask)
                   THEN 1 ELSE 0
        /\ Self = call.before

\* C19 witness: get_cells was called with pieces on the board and the
\* falling piece over empty cells, off its spawn position
C19_Witness ==
    /\ call.op = "get_cells"
    /\ locks >= 1
    /\ falling # NoPiece
    /\ falling.pos # <<3, 0>>
    /\ \A c \in MaskCells(falling.mask) :
           /\ board[falling.pos[2] + c[2]][falling.pos[1] + c[1]] = Empty
           /\ call.cells[(falling.pos[2] + c[2]) * 10 + falling.pos[1] + c[1]] = 1

\* C20: move_falling_piece, rotate_falling_piece and switch_hold change no
\* cell of the board, nor points, level, cleared or tick; and an iterate call
\* that found no full row and locked no piece leaves the board as it was.
C20_BoardOnlyByLockAndCompaction ==
    /\ call.op \in {"move", "rotate", "switch_hold"} =>
          /\ board = call.before.board
          /\ points = call.before.points
          /\ level = call.before.level
          /\ cleared = call.before.cleared
          /\ tick = call.before.tick
    /\ (/\ call.op = "iterate"
        /\ \A y \in 0..(GAME_HEIGHT - 1) : NotFull(call.before.board[y])
        /\ ~call.locked
        /\ outcome.kind # PanicPrint)
          => board = call.before.board

\* C20 witness: an iterate call with a piece on the board and no full row
\* moved the falling piece down and left the board as it was
C20_Witness ==
    /\ call.op = "iterate"
    /\ locks >= 1
    /\ ~call.locked
    /\ falling # NoPiece
    /\ falling.pos[2] = call.before.falling.pos[2] + 1
    /\ board = call.before.board

\* the piece in play before the call rests on the board as it was then
Rested ==
    LET f == call.before.falling
    IN  Hits(f.mask, <<f.pos[1], f.pos[2] + 1>>, call.before.board)

\* the call is a move whose target is free or a turn that fits at some offset
Succeeded ==
    LET f == call.before.falling
    IN  \/ /\ call.op = "move"
           /\ ~Hits(f.mask, <<f.pos[1] + call.args[1], f.pos[2] + call.args[2]>>,
                    call.before.board)
        \/ /\ call.op = "rotate"
           /\ \E k \in 1..9 : Fits(f, call.args[1], k, call.before.board)

C23_ResetIffCountingDownWithBudget ==
    Succeeded =>
        LET f == call.before.falling
            resets == f.lock_delay < LOCK_DELAY /\ f.lock_delay_resets > 0
        IN  /\ falling # NoPiece
            /\ resets <=> (/\ falling.lock_delay = LOCK_DELAY
                           /\ falling.lock_delay_resets = f.lock_delay_resets - 1)
            /\ ~resets => (/\ falling.lock_delay = f.lock_delay
                           /\ falling.lock_delay_resets = f.lock_delay_resets)

\* C23 witness: a successful move of a piece whose delay was below 5 and
\* whose budget was spent left the delay where it was
C23_Witness ==
    /\ Succeeded
    /\ call.before.falling.lock_delay < LOCK_DELAY
    /\ call.before.falling.lock_delay_resets = 0
    /\ falling.lock_delay = call.before.falling.lock_delay
    /\ falling.lock_delay_resets = 0

\* the board the call's compaction leaves: iterate and hard_drop compact it
\* before anything else
BoardCompacted ==
    compact_board(call.before.board, call.before.points, call.before.cleared).board

FallTable == <<59, 47, 37, 28, 21, 15, 11, 8, 5, 3, 2, 1, 1, 1, 1>>
FallInterval(lv) == FallTable[Min(lv, 15)]

\* C25: an iterate call that returns adds exactly 1 to tick.  When the tick
\* before the call is divisible by the fall interval of the level and the
\* piece rests on nothing, the call moves the piece down exactly one row and
\* leaves its column, rotation, lock delay and reset budget as they were;
\* when the tick is not divisible it leaves the falling piece as it was.
C25_GravityStepOneRow ==
    (call.op = "iterate" /\ outcome = Running) =>
        LET f == call.before.falling
        IN  /\ tick = call.before.tick + 1
            /\ (/\ call.before.tick % FallInterval(level) = 0
                /\ ~Hits(f.mask, <<f.pos[1], f.pos[2] + 1>>, BoardCompacted)) =>
                   falling = [f EXCEPT !.pos = <<f.pos[1], f.pos[2] + 1>>]
            /\ call.before.tick % FallInterval(level) # 0 => falling = f

\* C25 witness: the iterate call at tick 59 of level 1 moved the piece from
\* row 1 to row 2, the call before it left the piece where it was
C25_Witness ==
    /\ call.op = "iterate"
    /\ outcome = Running
    /\ level = 1
    /\ call.before.tick = 59
    /\ tick = 60
    /\ call.before.falling.pos[2] = 1
    /\ falling.pos[2] = 2

\* the piece of kind id as spawn_with_id is to create it
Fresh(id) ==
    [id |-> id, pos |-> <<3, 0>>, mask_idx |-> 0, mask |-> MaskOf(MaskCellTable[id][1]),
     lock_delay |-> 5, lock_delay_resets |-> 10]

C29_RotationIndex ==
    /\ falling # NoPiece =>
           /\ falling.mask_idx \in 0..3
           /\ falling.mask = MaskOf(MaskCellTable[falling.id][falling.mask_idx + 1])
    /\ (call.op = "rotate" /\ Succeeded) =>
           falling.mask_idx =
               IF call.args[1] = 1 THEN (call.before.falling.mask_idx + 1) % 4
               ELSE (call.before.falling.mask_idx + 3) % 4

\* C29 witness: a rotation by -1 took the index from 0 to 3
C29_Witness ==
    /\ call.op = "rotate"
    /\ call.args[1] = -1
    /\ call.before.falling.mask_idx = 0
    /\ falling.mask_idx = 3
    /\ falling.mask # call.before.falling.mask

\* C30: the piece a call spawns, from the queue or from the hold slot, is at
\* (3,0) with rotation index 0, lock delay 5 and reset budget 10, whatever
\* the piece before it was.
C30_SpawnedFresh ==
    (call.spawn # "None" /\ outcome = Running) => falling = Fresh(call.spawn)

\* C30 witness: a switch_hold took the held kind back after the piece in
\* play had been moved down and turned
C30_Witness ==
    /\ call.op = "switch_hold"
    /\ call.before.hold # NoHold
    /\ call.spawn = call.before.hold
    /\ call.before.falling.pos # <<3, 0>>
    /\ call.before.falling.mask_idx # 0
    /\ falling = Fresh(call.before.hold)

-----------------------------------------------------------------------------
(* SpecGravity: iterate on games of every level.  The level is the input:   *)
(* a new game's piece falls over an empty board in a game that has cleared  *)
(* 10 * (level - 1) rows.                                                   *)

MaxLevel == 17
GravityTicks == 61

\* the awards of c rows cleared one at a time
RECURSIVE AwardsOfSingles(_)
AwardsOfSingles(c) == IF c = 0 THEN 0 ELSE AwardsOfSingles(c - 1) + LevelOf(c) * Award(1)

GameAtLevel(lv) ==
    [Game_new(0, 0, 0, 0) EXCEPT !.cleared = 10 * (lv - 1), !.level = lv,
                                 !.points = AwardsOfSingles(10 * (lv - 1))]

InitGravity ==
    /\ \E lv \in 1..MaxLevel : Is(GameAtLevel(lv))
    /\ call = [op |-> "new", interval |-> 0, locked |-> FALSE]
    /\ driver = NoDriver

IterateAtLevel ==
    /\ outcome = Running
    /\ tick < GravityTicks
    /\ Becomes(iterate(Self, 0))
    /\ call' = [op |-> "iterate", interval |-> frames_per_row(level'),
                locked |-> locks' > locks, before |-> Self]
    /\ UNCHANGED driver

NextGravity == IterateAtLevel

SpecGravity == InitGravity /\ [][NextGravity]_vars

-----------------------------------------------------------------------------
(* SpecNN: NN::write_out and NN::read_in (neural_network.rs).  A file is the *)
(* sequence of its characters, each a string of length 1.  A weight is a     *)
(* whole number of ten-millionths: gen_range(0.0, 0.00001) draws below 100   *)
(* of them.  A DMatrix is its shape and its elements in storage order,       *)
(* column by column.                                                         *)

MaxInputs == 10
MaxLayerSize == 2
MaxLayers == 2
MaxRngSeed == 1

\* enum ActivationType { Relu, Sigmoid }
ActivationType == {"Relu", "Sigmoid"}

Chars(str) == [i \in 1..Len(str) |-> SubSeq(str, i, i)]
Digits == Chars("0123456789")
is_numeric(c) == \E d \in 1..10 : Digits[d] = c

\* format!("{}", n) of a usize
RECURSIVE FormatUsize(_)
FormatUsize(n) ==
    IF n < 10 THEN <<Digits[n + 1]>>
    ELSE FormatUsize(n \div 10) \o <<Digits[(n % 10) + 1]>>

\* the value of a sequence of digits
RECURSIVE DigitsValue(_)
DigitsValue(s) ==
    IF s = <<>> THEN 0
    ELSE 10 * DigitsValue(SubSeq(s, 1, Len(s) - 1)) + (CHOOSE d \in 0..9 : Digits[d + 1] = s[Len(s)])

\* NNReadResult: Ok(v), or Err of ParseIntError, ParseFloatError or Other
NNOk(v) == [ok |-> TRUE, val |-> v]
NNErr(e) == [ok |-> FALSE, err |-> e]

\* str::parse::<usize>
ParseUsize(s) ==
    IF s = <<>> \/ \E i \in 1..Len(s) : ~is_numeric(s[i]) THEN NNErr("ParseIntError")
    ELSE NNOk(DigitsValue(s))

\* s without the zeros at its end
RECURSIVE TrimZeros(_)
TrimZeros(s) ==
    IF s # <<>> /\ s[Len(s)] = "0" THEN TrimZeros(SubSeq(s, 1, Len(s) - 1)) ELSE s

\* the 7 decimals of w ten-millionths
Decimals(w) ==
    [i \in 1..7 |-> Digits[((w \div (10 ^ (7 - i))) % 10) + 1]]

\* format!("{}", w) of an f64: the shortest decimal that reads back as w,
\* never in exponent notation
FormatF64(w) ==
    IF w = 0 THEN <<"0">>
    ELSE FormatUsize(w \div 10000000) \o <<".">> \o TrimZeros(Decimals(w % 10000000))

\* the index of the first c in s, 0 if there is none
FindChar(s, c) ==
    IF \E i \in 1..Len(s) : s[i] = c
    THEN CHOOSE i \in 1..Len(s) : s[i] = c /\ \A j \in 1..(i - 1) : s[j] # c
    ELSE 0

\* str::parse::<f64> of a decimal with up to 7 decimals; the empty string
\* and a string with any other character are errors
ParseF64(s) ==
    LET dot == FindChar(s, ".")
        int == IF dot = 0 THEN s ELSE SubSeq(s, 1, dot - 1)
        frac == IF dot = 0 THEN <<>> ELSE SubSeq(s, dot + 1, Len(s))
    IN  IF \/ s = <<>>
           \/ int = <<>> /\ frac = <<>>
           \/ \E i \in 1..Len(int) : ~is_numeric(int[i])
           \/ \E i \in 1..Len(frac) : ~is_numeric(frac[i])
           \/ Len(frac) > 7
        THEN NNErr("ParseFloatError")
        ELSE NNOk(DigitsValue(int) * 10000000
                  + DigitsValue(frac) * (10 ^ (7 - Len(frac))))

\* str::split(c): the fields between the c's, one field when there is no c
RECURSIVE Split(_, _)
Split(s, c) ==
    LET i == FindChar(s, c)
    IN  IF i = 0 THEN <<s>>
        ELSE <<SubSeq(s, 1, i - 1)>> \o Split(SubSeq(s, i + 1, Len(s)), c)

\* Itertools::join(sep)
RECURSIVE Join(_, _)
Join(fields, sep) ==
    IF fields = <<>> THEN <<>>
    ELSE IF Len(fields) = 1 THEN fields[1]
    ELSE fields[1] \o sep \o Join(Tail(fields), sep)

\* BufRead::lines of text: the lines without their "\n"; text that ends in
\* "\n" has no empty line after it
RECURSIVE Lines(_)
Lines(text) ==
    IF text = <<>> THEN <<>>
    ELSE LET i == FindChar(text, "\n")
         IN  IF i = 0 THEN <<text>>
             ELSE <<SubSeq(text, 1, i - 1)>> \o Lines(SubSeq(text, i + 1, Len(text)))

\* the values the rng of seed s draws, in order: rng.gen_range(0.0, 0.00001)
rng_draw(s, n) == <<3, 0, 40, 99, 12>>[((s + n) % 5) + 1]

\* DMatrix::from_iterator(nrows, ncols, it): the elements fill the columns
\* one after the other
from_iterator(nrows, ncols, it) ==
    [nrows |-> nrows, ncols |-> ncols, data |-> SubSeq(it, 1, nrows * ncols)]

\* gen_weights(ncols, nrows, rng): DMatrix::from_fn(nrows, ncols, ..) calls
\* the rng column by column; drawn counts the draws made before
gen_weights(ncols, nrows, s, drawn) ==
    [nrows |-> nrows, ncols |-> ncols,
     data |-> [i \in 1..(nrows * ncols) |-> rng_draw(s, drawn + i - 1)]]

\* the element of matrix m in row r and column c, both counted from 0
At(m, r, c) == m.data[c * m.nrows + r + 1]

\* NN::make(first_layer_size)
NN_make(first_layer_size, s) ==
    [last_size |-> first_layer_size, layers |-> <<>>, rng |-> s, drawn |-> 0]

\* NNBuilder::add_layer
add_layer(nb, size, typ) ==
    [nb EXCEPT !.layers = Append(nb.layers,
                              [weights |-> gen_weights(nb.last_size + 1, size,
                                                         nb.rng, nb.drawn),
                               activation |-> typ]),
               !.drawn = nb.drawn + size * (nb.last_size + 1),
               !.last_size = size]

\* NNBuilder::build
build(nb) ==
    IF nb.layers = <<>> THEN NNErr("NNCreationError") ELSE NNOk(nb.layers)

\* the builder after add_layer was called for each entry of shape
RECURSIVE add_layers(_, _)
add_layers(nb, shape) ==
    IF shape = <<>> THEN nb
    ELSE add_layers(add_layer(nb, shape[1][1], shape[1][2]), Tail(shape))

\* one line of write_out
WriteLayer(layer) ==
    LET size == FormatUsize(layer.weights.nrows) \o <<"x">>
                \o FormatUsize(layer.weights.ncols)
        activation == IF layer.activation = "Relu" THEN <<"R">> ELSE <<"S">>
        ws == Join([i \in 1..Len(layer.weights.data) |->
                       FormatF64(layer.weights.data[i])], <<",">>)
    IN  size \o <<" ">> \o activation \o <<" ">> \o ws \o <<"\n">>

RECURSIVE WriteLayers(_)
WriteLayers(layers) ==
    IF layers = <<>> THEN <<>>
    ELSE WriteLayer(layers[1]) \o WriteLayers(Tail(layers))

\* NN::write_out: the characters of the file
write_out(layers) ==
    Chars("LAYERS: ") \o FormatUsize(Len(layers)) \o <<"\n">> \o WriteLayers(layers)

\* the longest numeric prefix of s
RECURSIVE TakeNumeric(_)
TakeNumeric(s) ==
    IF s # <<>> /\ is_numeric(s[1]) THEN <<s[1]>> \o TakeNumeric(Tail(s)) ELSE <<>>

\* a sequence of results collected: the values, or the first error
RECURSIVE Collect(_)
Collect(rs) ==
    IF rs = <<>> THEN NNOk(<<>>)
    ELSE IF ~rs[1].ok THEN rs[1]
    ELSE LET rest == Collect(Tail(rs))
         IN  IF rest.ok THEN NNOk(<<rs[1].val>> \o rest.val) ELSE rest

\* the body of read_in's loop for one line
ReadLayer(line) ==
    LET split == Split(line, " ")
        iter == Split(split[1], "x")
        n0 == ParseUsize(iter[1])
        n1 == IF Len(iter) < 2 THEN NNErr("Other") ELSE ParseUsize(iter[2])
    IN  IF ~n0.ok THEN n0
        ELSE IF ~n1.ok THEN n1
        ELSE IF Len(split) < 2 THEN NNErr("Other")
        ELSE IF split[2] \notin {<<"R">>, <<"S">>} THEN NNErr("Other")
        ELSE IF Len(split) < 3 THEN NNErr("Other")
        ELSE LET fields == Split(split[3], ",")
                 ws == Collect([i \in 1..Len(fields) |-> ParseF64(fields[i])])
             IN  IF ~ws.ok THEN ws
                 ELSE IF Len(ws.val) # n0.val * n1.val THEN NNErr("Other")
                 ELSE NNOk([weights |-> from_iterator(n0.val, n1.val, ws.val),
                            activation |-> IF split[2] = <<"R">> THEN "Relu"
                                           ELSE "Sigmoid"])

\* NN::read_in of a file with the characters text
read_in(text) ==
    LET nl == FindChar(text, "\n")
        line == IF nl = 0 THEN text ELSE SubSeq(text, 1, nl)
        rest == IF nl = 0 THEN <<>> ELSE SubSeq(text, nl + 1, Len(text))
        prefix == Chars("LAYERS: ")
    IN  IF Len(line) < Len(prefix) \/ SubSeq(line, 1, Len(prefix)) # prefix
        THEN NNErr("Other")
        ELSE LET num_layers ==
                     ParseUsize(TakeNumeric(SubSeq(line, Len(prefix) + 1, Len(line))))
                 lines == Lines(rest)
                 layers == Collect([i \in 1..Len(lines) |-> ReadLayer(lines[i])])
             IN  IF ~num_layers.ok THEN num_layers
                 ELSE IF ~layers.ok THEN layers
                 ELSE IF num_layers.val # Len(layers.val) THEN NNErr("Other")
                 ELSE layers

InitNN ==
    /\ \E n \in 0..MaxInputs, s \in 0..MaxRngSeed, k \in 1..MaxLayers :
           \E shape \in [1..k -> (0..MaxLayerSize) \X ActivationType] :
               call = [op |-> "build",
                       nn |-> build(add_layers(NN_make(n, s), shape)).val]
    /\ board = EmptyBoard
    /\ points = 0
    /\ level = 1
    /\ cleared = 0
    /\ GameUnused

WriteOut ==
    /\ call.op = "build"
    /\ call' = [op |-> "write_out", nn |-> call.nn, file |-> write_out(call.nn)]
    /\ UNCHANGED <<board, piece_queue, falling, hold, can_switch, tick, points,
                   level, cleared, outcome, locks, driver>>

ReadIn ==
    /\ call.op = "write_out"
    /\ call' = [op |-> "read_in", nn |-> call.nn, file |-> call.file,
                read |-> read_in(call.file)]
    /\ UNCHANGED <<board, piece_queue, falling, hold, can_switch, tick, points,
                   level, cleared, outcome, locks, driver>>

NextNN == WriteOut \/ ReadIn

SpecNN == InitNN /\ [][NextNN]_vars

\* the network read is the one written: as many layers, each with the shape,
\* the activation type and, position by position, the weights of the original
SameNetwork(a, b) ==
    /\ Len(a) = Len(b)
    /\ \A i \in 1..Len(a) :
           /\ a[i].weights.nrows = b[i].weights.nrows
           /\ a[i].weights.ncols = b[i].weights.ncols
           /\ a[i].activation = b[i].activation
           /\ \A r \in 0..(a[i].weights.nrows - 1) :
                  \A c \in 0..(a[i].weights.ncols - 1) :
                      At(a[i].weights, r, c) = At(b[i].weights, r, c)

\* C22: for every network the builder builds, read_in of the file write_out
\* wrote returns Ok with a network equal to the original: as many layers,
\* each with the shape, the activation type and the weights of the original.
C22_RoundTrip ==
    call.op = "read_in" => (call.read.ok /\ SameNetwork(call.nn, call.read.val))

\* the round trip of the networks whose layers all have a neuron
RoundTripNoEmptyLayer ==
    (call.op = "read_in" /\ \A i \in 1..Len(call.nn) : call.nn[i].weights.nrows > 0)
        => (call.read.ok /\ SameNetwork(call.nn, call.read.val))

\* C31: in every state a call returned, no cell the falling piece covers is
\* Occupied on the board, right after a compaction that shifts rows down
\* while the piece falls included.
C31_PieceOverlapsNothing ==
    (outcome = Running /\ falling # NoPiece) =>
        \A c \in MaskCells(falling.mask) :
            InBounds(falling.pos[1] + c[1], falling.pos[2] + c[2]) =>
                board[falling.pos[2] + c[2]][falling.pos[1] + c[1]] = Empty

\* C36: a piece is locked only where its mask one row lower hits the floor or
\* an Occupied cell of the compacted board, by a gravity step as by a hard
\* drop: no piece is stamped while it could still fall.
C36_LockedWhereItRests ==
    call.locked =>
        LET f == call.before.falling
            b == BoardCompacted
            at == IF call.op = "hard_drop"
                  THEN <<f.pos[1], f.pos[2] + DropRows(f.mask, f.pos, b)>>
                  ELSE f.pos
        IN  /\ board = Stamped(b, f.mask, f.id, at)
            /\ Hits(f.mask, <<at[1], at[2] + 1>>, b)

\* C36 witness: a hard drop locked a piece above the floor, on cells other
\* pieces occupy
C36_Witness ==
    /\ call.op = "hard_drop"
    /\ call.locked
    /\ call.before.falling.pos[2] = 0
    /\ LET f == call.before.falling
           k == DropRows(f.mask, f.pos, BoardCompacted)
       IN  /\ k > 0
           /\ \A c \in MaskCells(f.mask) : f.pos[2] + k + c[2] + 1 < GAME_HEIGHT

\* the number of rows of board b with no Empty cell
FullRowCount(b) ==
    Cardinality({y \in 0..(GAME_HEIGHT - 1) :
                    \A x \in 0..(GAME_WIDTH - 1) : b[y][x] # Empty})

C33_DelayAndBudgetBounded ==
    (falling # NoPiece /\ outcome.kind \in {"Running", LostKind}) =>
        /\ falling.lock_delay \in 0..LOCK_DELAY
        /\ falling.lock_delay_resets \in 0..LOCK_DELAY_RESETS
        /\ call.resets_got + falling.lock_delay_resets = LOCK_DELAY_RESETS
        /\ call.resets_got <= 10
        /\ call.decrements <= 55
        /\ call.decrements <= LOCK_DELAY * (call.resets_got + 1)
        /\ (/\ call.op \in {"iterate", "move", "rotate", "hard_drop", "switch_hold"}
            /\ ~call.locked
            /\ call.before.falling # NoPiece
            /\ call.before.falling.id = falling.id
            /\ call.before.hold = hold)
           => falling.lock_delay_resets <= call.before.falling.lock_delay_resets

\* a piece that has had its 10 resets and seen its delay go down 55 times
C33_Witness ==
    /\ outcome = Running
    /\ falling # NoPiece
    /\ call.resets_got = 10
    /\ call.decrements = 55
    /\ falling.lock_delay = 0
    /\ falling.lock_delay_resets = 0

\* the Occupied cells of a board
OccupiedCount(b) ==
    Cardinality({c \in (0..GAME_WIDTH - 1) \X (0..GAME_HEIGHT - 1) :
                    b[c[2]][c[1]] # Empty})

\* C39: after every iterate and every hard_drop, which compact the board
\* first and may then stamp one piece of 4 cells, the board holds 4 cells for
\* every lock so far less 10 for every row counted in cleared
C39_CellsBalance ==
    (/\ outcome.kind \in {"Running", LostKind}
     /\ call.op \in {"iterate", "hard_drop"})
        => OccupiedCount(board) = 4 * locks - 10 * cleared

\* C37: no call takes points, cleared, level or tick below what they were
\* before it, and level is at least 1 in every state
C37_CountersNeverDecrease ==
    /\ level >= 1
    /\ call.op \in AllOps =>
           /\ points >= call.before.points
           /\ cleared >= call.before.cleared
           /\ level >= call.before.level
           /\ tick >= call.before.tick

\* an iterate that has raised all four: its compaction removed the row that
\* takes cleared to 10 and level to 2
C37_Witness ==
    /\ outcome = Running
    /\ call.op = "iterate"
    /\ points > call.before.points
    /\ cleared > call.before.cleared
    /\ level = 2 /\ call.before.level = 1
    /\ tick > call.before.tick

\* C34: the compaction of an iterate counts the rows it found full in
\* cleared, sets level to cleared / 10 + 1 for the new count, and adds 0, 40,
\* 100, 300, 1200 times that new level to points
C34_AwardAfterCount ==
    (call.op = "iterate" /\ outcome.kind \in {"Running", LostKind}) =>
        LET n == FullRowCount(call.before.board)
            counted == call.before.cleared + n
            multiplier == counted \div 10 + 1
        IN  /\ cleared = counted
            /\ level = multiplier
            /\ points - call.before.points = multiplier * TableAward(n)

\* one row cleared at level 1 that takes cleared from 9 to 10: 80 points
C34_Witness ==
    /\ call.op = "iterate"
    /\ outcome = Running
    /\ call.before.cleared = 9 /\ call.before.level = 1
    /\ cleared = 10 /\ level = 2
    /\ points = call.before.points + 80

\* C38: no three pops in a row return the same kind; two in a row do only
\* when the first is the 7th pop of its group and the second the 1st of the
\* next; at most 12 pops that return other kinds lie between two pops that
\* return the same kind; the bag holds no kind twice, and at most 6 kinds
\* after a draw
C38_RepeatsOnlyAcrossBags ==
    /\ Cardinality(SeqOf(piece_queue.bag)) = Len(piece_queue.bag)
    /\ Len(piece_queue.bag) <= 6
    /\ call.gap <= 12
    /\ call.op = "pop" =>
           /\ ~(call.out = call.last /\ call.doubled)
           /\ call.out = call.last => (call.n > 1 /\ call.n % 7 = 1)
           /\ call.between <= 12

\* the watched kind came first in one bag and last in the next, 12 pops
\* between its two, and is at the front of the buffer again: the 15th pop
\* will return it a second time in a row
C38_Witness ==
    /\ call.op = "pop"
    /\ call.out = call.watch
    /\ call.between = 12
    /\ call.n = 14
    /\ piece_queue.queue[1] = call.out

----------------------------------------------------------------------------
(* SpecStall: the I over an empty board under the calls of the             *)
(* driver's keys, with iterate called again and again (weak fairness: it   *)
(* can be called in every state of a running game).  The level is an       *)
(* input, as in SpecGravity; the levels taken are those with a fall        *)
(* interval of 3 frames or less.  iterate reads tick only modulo the fall  *)
(* interval, and the level stays what it is while no piece is locked, so   *)
(* tick is kept modulo the interval: the states are finitely many and a    *)
(* behaviour that goes on forever shows as a cycle.  Nothing is called     *)
(* once the piece is locked or held or the game is over.                   *)

\* the lowest level taken; the highest is MaxLevel
StallLevel == 10

InPlay == outcome = Running /\ locks = 0 /\ hold = NoHold

InitStall ==
    /\ \E lv \in StallLevel..MaxLevel : Is(GameAtLevel(lv))
    /\ call = [op |-> "new"]
    /\ driver = NoDriver

IterateStall ==
    /\ InPlay
    /\ \E g \in {iterate(Self, 0)} :
           Becomes([g EXCEPT !.tick = g.tick % frames_per_row(g.level)])
    /\ UNCHANGED <<call, driver>>

MoveStall ==
    /\ InPlay
    /\ \E m \in DriverMoves : \E g \in {move_falling_piece(Self, m[1], m[2])} :
           Becomes(g)
    /\ UNCHANGED <<call, driver>>

RotateStall ==
    /\ InPlay
    /\ \E di \in {1, -1} : \E g \in {rotate_falling_piece(Self, di)} : Becomes(g)
    /\ UNCHANGED <<call, driver>>

HardDropStall ==
    /\ InPlay
    /\ \E g \in {hard_drop(Self, 0)} : Becomes(g)
    /\ UNCHANGED <<call, driver>>

SwitchHoldStall ==
    /\ InPlay
    /\ \E g \in {switch_hold(Self, 0)} : Becomes(g)
    /\ UNCHANGED <<call, driver>>

NextStall ==
    \/ IterateStall
    \/ MoveStall
    \/ RotateStall
    \/ HardDropStall
    \/ SwitchHoldStall

SpecStall == InitStall /\ [][NextStall]_vars /\ WF_vars(IterateStall)

\* C32: with iterate called again and again, whatever the keys do in
\* between, the piece in play is in the end locked or put on hold, or the
\* game is over.  It is not: a piece that lies one row above the floor
\* falls onto it at a gravity step; a turn there is kicked upwards, the
\* next turn leaves it one row above the floor again, and the next gravity
\* step finds it resting on nothing, its lock delay untouched
C32_EveryPieceSettles == <>(~InPlay)

====
